---------------------------- MODULE Spec2Model ----------------------------
(***************************************************************************)
(* A state-machine model of the tree-walking evaluator of the `ew`         *)
(* language (src/src/interpreter.rs).  The Rust evaluator is a pair of     *)
(* mutually recursive functions, exec_stmt and eval_expr, over an          *)
(* environment made of a global table and a stack of frames.  The model    *)
(* makes the native recursion explicit: `ctrl` is the stack of pending     *)
(* activations (each one a position inside run, exec_stmt or eval_expr),   *)
(* `mode` says whether the machine is about to execute a statement, to     *)
(* evaluate an expression, or to hand a result back to the activation on   *)
(* top of `ctrl`, and `focus` is that statement, expression or result.     *)
(*                                                                         *)
(* Conventions.                                                            *)
(*  - A Rust Vec is a TLA+ sequence; Rust index i is TLA+ index i + 1.     *)
(*  - Option<T> is a sequence of length at most one: <<>> is None and      *)
(*    <<x>> is Some(x).  Frame.parent therefore holds a Rust (0-based)     *)
(*    index.                                                               *)
(*  - A HashMap<String, Val> is a function whose domain is the key set.    *)
(*  - A Str payload is the sequence of its characters (s.chars()).         *)
(*  - Fields of records whose name starts with "g_" are history (ghost)    *)
(*    fields: no transition reads them to decide what to do.               *)
(***************************************************************************)
EXTENDS Integers, Sequences, FiniteSets, TLC

VARIABLES
    global,   \* Interpreter.global : HashMap<String, Val>
    stack,    \* Interpreter.stack  : Vec<Frame>
    ctrl,     \* pending activations of run / exec_stmt / eval_expr, innermost first
    mode,     \* "idle" | "exec" | "eval" | "ret"
    focus,    \* the statement (exec), expression (eval) or result (ret) at hand
    prog,     \* the `source` argument of the current (or last) run() call
    result,   \* what the last run() call returned
    runs,     \* number of run() calls made on this Interpreter
    flows     \* history: the Flow each top-level statement of this run produced

vars == <<global, stack, ctrl, mode, focus, prog, result, runs, flows>>

---------------------------------------------------------------------------
(* Runtime values: enum Val.                                               *)

IntV(n)   == [t |-> "Int", v |-> n]
FloatV(x) == [t |-> "Float", v |-> x]
BoolV(b)  == [t |-> "Bool", v |-> b]
StrV(s)   == [t |-> "Str", v |-> s]
ArrayV(a) == [t |-> "Array", v |-> a]
FunctionV(params, body) == [t |-> "Function", params |-> params, body |-> body]
Unit      == [t |-> "Unit"]

(* Result<_, String>.  The diagnostic is modelled by its fixed prefix.     *)
Ok(v)  == [ok |-> TRUE, val |-> v]
Err(m) == [ok |-> FALSE, err |-> m]

(* A panic (unwrap / expect on a failure, an allocation beyond the address *)
(* space): not a Result at all, the thread unwinds.                        *)
Panic(m)   == [ok |-> FALSE, err |-> m, panic |-> TRUE]
IsPanic(r) == "panic" \in DOMAIN r

(* What an activation hands back: Ok(Val) of eval_expr, Ok(Flow) of        *)
(* exec_stmt, or Err.  g_from names the construct whose                    *)
(* `Flow::Return(v) => return Ok(v)` arm produced the value ("none" when   *)
(* the value did not come from a Return).                                  *)
ValR(v)          == [kind |-> "Val", val |-> v, g_from |-> "none"]
ValFromR(v, c)   == [kind |-> "Val", val |-> v, g_from |-> c]
ContinueR(v, c)  == [kind |-> "Continue", val |-> v, g_from |-> c]
ReturnR(v)       == [kind |-> "Return", val |-> v, g_from |-> "none"]
ErrR(m)          == [kind |-> "Err", err |-> m]
PanicR(m)        == [kind |-> "Panic", err |-> m]
OfResult(r)      == IF r.ok THEN ValR(r.val)
                    ELSE IF IsPanic(r) THEN PanicR(r.err) ELSE ErrR(r.err)

None == [k |-> "None"]

---------------------------------------------------------------------------
(* The AST: enum Stmt, enum AssignmentTarget, enum Expr.                   *)

Function(name, params, body) ==
    [k |-> "Function", name |-> name, params |-> params, body |-> body]
Return(e)             == [k |-> "Return", expr |-> e]
Assignment(name, e)   == [k |-> "Assignment", name |-> name, value |-> e]
Reassignment(tgt, e)  == [k |-> "Reassignment", target |-> tgt, value |-> e]
ExprS(e)              == [k |-> "Expr", expr |-> e]

TIdent(name)          == [k |-> "Ident", name |-> name]
TArrayAccess(name, indices) ==
    [k |-> "ArrayAccess", name |-> name, indices |-> indices]

IntE(n)    == [k |-> "Int", v |-> n]
FloatE(x)  == [k |-> "Float", v |-> x]
BoolE(b)   == [k |-> "Bool", v |-> b]
StrE(s)    == [k |-> "Str", v |-> s]
ArrayE(es) == [k |-> "Array", elems |-> es]
ArrayAccessE(name, indices) ==
    [k |-> "ArrayAccess", name |-> name, indices |-> indices]
VarE(name) == [k |-> "Var", name |-> name]
UnaryE(op, e)      == [k |-> "Unary", op |-> op, expr |-> e]
BinaryE(op, l, r)  == [k |-> "Binary", op |-> op, lhs |-> l, rhs |-> r]
CallE(name, args)  == [k |-> "Call", name |-> name, args |-> args]
IfE(c, th, el)     == [k |-> "If", cond |-> c, then |-> th, else_ |-> el]
WhileE(c, body)    == [k |-> "While", cond |-> c, body |-> body]
ForE(var, st, en, body) ==
    [k |-> "For", var |-> var, start |-> st, end |-> en, body |-> body]
BlockE(stmts)      == [k |-> "Block", stmts |-> stmts]

---------------------------------------------------------------------------
(* HashMap and Frame.                                                      *)

EmptyMap == [n \in {} |-> Unit]

(* HashMap::insert: adds the key or replaces its value.                    *)
MapInsert(m, key, val) ==
    [n \in (DOMAIN m) \cup {key} |-> IF n = key THEN val ELSE m[n]]

(* Frame::new(): no locals, no parent.                                     *)
FrameNew == [local |-> EmptyMap, parent |-> <<>>]

(* Vec::pop on the frame stack.                                            *)
Pop(s) == SubSeq(s, 1, Len(s) - 1)

(* self.stack.last_mut().local.insert(name, val)                           *)
InsertTop(s, name, val) ==
    [s EXCEPT ![Len(s)].local = MapInsert(@, name, val)]

---------------------------------------------------------------------------
(* Scope resolution.                                                       *)

(* The loop of Interpreter::lookup, from frame index idx (0-based).        *)
RECURSIVE LookupChain(_, _, _)
LookupChain(s, idx, name) ==
    LET frame == s[idx + 1] IN
    IF name \in DOMAIN frame.local THEN <<frame.local[name]>>
    ELSE IF frame.parent # <<>> THEN LookupChain(s, frame.parent[1], name)
    ELSE <<>>

(* Interpreter::lookup: chain, then the global table, else an error.       *)
Lookup(s, g, name) ==
    LET hit == LookupChain(s, Len(s) - 1, name) IN
    IF hit # <<>> THEN Ok(hit[1])
    ELSE IF name \in DOMAIN g THEN Ok(g[name])
    ELSE Err("Undefined Variable: " \o name)

(* Variant: the walk of lookup_mut stops at the innermost frame.           *)
LookupMutFoundTop(s, search_idx, name) ==
    IF name \in DOMAIN s[search_idx + 1].local THEN <<search_idx>> ELSE <<>>

(* The loop of Interpreter::lookup_mut: found_idx.                         *)
RECURSIVE LookupMutFound(_, _, _)
LookupMutFound(s, search_idx, name) ==
    LET frame == s[search_idx + 1] IN
    IF name \in DOMAIN frame.local THEN <<search_idx>>
    ELSE IF frame.parent # <<>> THEN LookupMutFound(s, frame.parent[1], name)
    ELSE <<>>

(* Interpreter::lookup_mut: Option<&mut Val>, modelled as the place the    *)
(* handle points to.                                                       *)
LookupMut(s, g, name) ==
    LET found_idx == LookupMutFound(s, Len(s) - 1, name) IN
    IF found_idx # <<>> THEN <<[where |-> "frame", idx |-> found_idx[1]]>>
    ELSE IF name \in DOMAIN g THEN <<[where |-> "global"]>>
    ELSE <<>>

(* Reading and writing through the handle.                                 *)
Deref(s, g, h, name) ==
    IF h.where = "frame" THEN s[h.idx + 1].local[name] ELSE g[name]

StoreStack(s, h, name, val) ==
    IF h.where = "frame" THEN [s EXCEPT ![h.idx + 1].local[name] = val] ELSE s

StoreGlobal(g, h, name, val) ==
    IF h.where = "global" THEN [g EXCEPT ![name] = val] ELSE g

---------------------------------------------------------------------------
(* Index conversion and the pure parts of eval_expr.                       *)

(* `n as usize` on an i64: a negative n wraps to n + 2^64.  The wrapped    *)
(* value is kept as the pair (wrapped?, n), standing for n + 2^64 when     *)
(* wrap holds, which is at least 2^63.                                     *)
AsUsize(n) == [wrap |-> n < 0, n |-> n]

(* `idx >= len` for a usize idx and a collection length (at most 2^63-1).  *)
UsizeGe(idx, len) == idx.wrap \/ idx.n >= len

(* An f64 is kept as the reduced fraction n / d (d > 0) of the real number *)
(* it denotes.  The Float values the model draws are small multiples of    *)
(* 1/2, on which +, -, * and % of f64 are exact; a quotient that f64 would *)
(* round is kept exact, which changes none of the outcomes looked at.      *)
RECURSIVE Gcd(_, _)
Gcd(a, b) == IF b = 0 THEN a ELSE Gcd(b, a % b)
Abs(n) == IF n < 0 THEN 0 - n ELSE n
Rat(n, d) ==
    LET g == Gcd(Abs(n), Abs(d))
        sgn == IF d < 0 THEN 0 - 1 ELSE 1 IN
    [n |-> (sgn * n) \div g, d |-> (sgn * d) \div g]

(* Rust's `/` and `%` on i64 truncate toward zero; TLA+'s \div and % floor *)
(* and need a positive modulus.  Defined for b # 0.                        *)
TruncDiv(a, b) ==
    LET q == Abs(a) \div Abs(b) IN IF (a < 0) = (b < 0) THEN q ELSE 0 - q
TruncRem(a, b) == a - b * TruncDiv(a, b)

FAdd(a, b) == Rat(a.n * b.d + b.n * a.d, a.d * b.d)
FSub(a, b) == Rat(a.n * b.d - b.n * a.d, a.d * b.d)
FMul(a, b) == Rat(a.n * b.n, a.d * b.d)
FDiv(a, b) == Rat(a.n * b.d, a.d * b.n)
(* f64 `%`: a - b * trunc(a / b), the sign of the dividend.                *)
FRem(a, b) == FSub(a, FMul(b, Rat(TruncDiv(a.n * b.d, a.d * b.n), 1)))
FLt(a, b)  == a.n * b.d < b.n * a.d
FZero      == Rat(0, 1)

(* Expr::Int / Bool / Float / Str.                                         *)
LiteralVal(e) ==
    CASE e.k = "Int"   -> IntV(e.v)
      [] e.k = "Bool"  -> BoolV(e.v)
      [] e.k = "Float" -> FloatV(e.v)
      [] e.k = "Str"   -> StrV(e.v)

(* Expr::Unary: the match on (op, val).                                    *)
EvalUnaryOp(op, val) ==
    CASE op = "Neg" /\ val.t = "Int"   -> Ok(IntV(0 - val.v))
      [] op = "Neg" /\ val.t = "Float" -> Ok(FloatV(Rat(0 - val.v.n, val.v.d)))
      [] op = "Not" /\ val.t = "Bool"  -> Ok(BoolV(~val.v))
      [] OTHER -> Err("Cannot apply")

(* str::repeat(n) for n >= 0.                                              *)
RECURSIVE Repeat(_, _)
Repeat(s, n) == IF n <= 0 THEN <<>> ELSE s \o Repeat(s, n - 1)

(* Interpreter::eval_bin_op.  In the Str * Int arm `i as usize` turns a    *)
(* negative i into a count of at least 2^63: repeat returns the empty      *)
(* string for an empty string and panics ("capacity overflow") otherwise.  *)
(* The Int arms are exact here for operands and results inside the i64     *)
(* range, which is all that the programs run; EvalIntOp is the same arms   *)
(* at the full width.                                                      *)
EvalBinOp(op, l, r) ==
    CASE l.t = "Int" /\ r.t = "Int" ->
           CASE op = "Add" -> Ok(IntV(l.v + r.v))
             [] op = "Sub" -> Ok(IntV(l.v - r.v))
             [] op = "Mul" -> Ok(IntV(l.v * r.v))
             [] op = "Div" -> IF r.v = 0 THEN Err("Division by zero")
                              ELSE Ok(IntV(TruncDiv(l.v, r.v)))
             [] op = "Mod" -> IF r.v = 0 THEN Err("Modulo by zero")
                              ELSE Ok(IntV(TruncRem(l.v, r.v)))
             [] op = "Eq"  -> Ok(BoolV(l.v = r.v))
             [] op = "Ne"  -> Ok(BoolV(l.v # r.v))
             [] op = "Gt"  -> Ok(BoolV(l.v > r.v))
             [] op = "Ge"  -> Ok(BoolV(l.v >= r.v))
             [] op = "Lt"  -> Ok(BoolV(l.v < r.v))
             [] op = "Le"  -> Ok(BoolV(l.v <= r.v))
             [] OTHER      -> Err("Cannot apply")
      [] l.t = "Float" /\ r.t = "Float" ->
           CASE op = "Add" -> Ok(FloatV(FAdd(l.v, r.v)))
             [] op = "Sub" -> Ok(FloatV(FSub(l.v, r.v)))
             [] op = "Mul" -> Ok(FloatV(FMul(l.v, r.v)))
             [] op = "Div" -> IF r.v = FZero THEN Err("Division by zero")
                              ELSE Ok(FloatV(FDiv(l.v, r.v)))
             [] op = "Mod" -> IF r.v = FZero THEN Err("Modulo by zero")
                              ELSE Ok(FloatV(FRem(l.v, r.v)))
             [] op = "Eq"  -> Ok(BoolV(l.v = r.v))
             [] op = "Ne"  -> Ok(BoolV(l.v # r.v))
             [] op = "Gt"  -> Ok(BoolV(FLt(r.v, l.v)))
             [] op = "Ge"  -> Ok(BoolV(~FLt(l.v, r.v)))
             [] op = "Lt"  -> Ok(BoolV(FLt(l.v, r.v)))
             [] op = "Le"  -> Ok(BoolV(~FLt(r.v, l.v)))
             [] OTHER      -> Err("Cannot apply")
      [] l.t = "Str" /\ r.t = "Str" /\ op = "Add" -> Ok(StrV(l.v \o r.v))
      [] l.t = "Str" /\ r.t = "Int" /\ op = "Mul" ->
           IF r.v >= 0 THEN Ok(StrV(Repeat(l.v, r.v)))
           ELSE IF l.v = <<>> THEN Ok(StrV(<<>>))
           ELSE Panic("capacity overflow")
      [] l.t = "Array" /\ r.t = "Array" /\ op = "Add" -> Ok(ArrayV(l.v \o r.v))
      [] l.t = "Bool" /\ r.t = "Bool" ->
           CASE op = "Eq"  -> Ok(BoolV(l.v = r.v))
             [] op = "Ne"  -> Ok(BoolV(l.v # r.v))
             [] op = "And" -> Ok(BoolV(l.v /\ r.v))
             [] op = "Or"  -> Ok(BoolV(l.v \/ r.v))
             [] OTHER      -> Err("Cannot apply")
      [] OTHER -> Err("Cannot apply")

(* The registry of Interpreter::builtins().                                *)
Builtins ==
    {"print", "println", "sin", "cos", "floor", "abs", "sqrt", "len",
     "clear", "sleep"}

(* The closures of the registry, apart from their output and their delay.  *)
(* The result of sin, cos and sqrt is kept as the application itself.      *)
ApplyBuiltin(name, args) ==
    CASE name \in {"print", "println"} -> Ok(Unit)
      [] name = "clear" ->
           IF Len(args) # 0 THEN Err("takes no arguments") ELSE Ok(Unit)
      [] name = "len" ->
           IF Len(args) # 1 THEN Err("takes 1 argument")
           ELSE IF args[1].t \in {"Array", "Str"} THEN Ok(IntV(Len(args[1].v)))
           ELSE Err("requires an array or string")
      [] name = "abs" ->
           IF Len(args) # 1 THEN Err("takes 1 argument")
           ELSE IF args[1].t = "Int" THEN Ok(IntV(Abs(args[1].v)))
           ELSE IF args[1].t = "Float"
                THEN Ok(FloatV(Rat(Abs(args[1].v.n), args[1].v.d)))
           ELSE Err("requires a number")
      [] name = "floor" ->
           IF Len(args) # 1 THEN Err("takes 1 argument")
           ELSE IF args[1].t = "Int" THEN Ok(IntV(args[1].v))
           ELSE IF args[1].t = "Float" THEN Ok(IntV(args[1].v.n \div args[1].v.d))
           ELSE Err("requires a number")
      [] name = "sleep" ->
           IF Len(args) # 1 THEN Err("takes 1 argument")
           ELSE IF args[1].t = "Int" THEN Ok(Unit)
           ELSE Err("requires an integer")
      [] OTHER ->
           IF Len(args) # 1 THEN Err("takes 1 argument")
           ELSE IF args[1].t \in {"Int", "Float"}
                THEN Ok(FloatV([fn |-> name, of |-> args[1]]))
           ELSE Err("requires a number")

(* One round of the index loop of Expr::ArrayAccess: the value reached so  *)
(* far, indexed by the value of the next index expression.  `last` tells   *)
(* whether a further index follows; a Str returns its character at once.   *)
AccessStep(cur, idx_val) ==
    IF idx_val.t # "Int" THEN [done |-> TRUE, res |-> Err("Array index must be an integer")]
    ELSE LET idx == AsUsize(idx_val.v) IN
         CASE cur.t = "Array" ->
                IF UsizeGe(idx, Len(cur.v))
                THEN [done |-> TRUE, res |-> Err("Array index out of bounds")]
                ELSE [done |-> FALSE, res |-> Ok(cur.v[idx.n + 1])]
           [] cur.t = "Str" ->
                IF UsizeGe(idx, Len(cur.v))
                THEN [done |-> TRUE, res |-> Err("String index out of bounds")]
                ELSE [done |-> TRUE, res |-> Ok(StrV(<<cur.v[idx.n + 1]>>))]
           [] OTHER -> [done |-> TRUE, res |-> Err("Cannot index into")]

---------------------------------------------------------------------------
(* The state-changing parts of exec_stmt, as functions of the environment. *)
(* Each yields [stack, global, res]: the environment afterwards and the    *)
(* Result of the arm.                                                      *)

Env(s, g, res) == [stack |-> s, global |-> g, res |-> res]

(* Variant: the function is bound in the innermost frame.                  *)
FunctionStmtLocal(s, g, name, params, body) ==
    Env(InsertTop(s, name, FunctionV(params, body)), g, Ok(Unit))

(* Stmt::Function: self.global.insert(name, Val::Function{..}).            *)
FunctionStmt(s, g, name, params, body) ==
    Env(s, MapInsert(g, name, FunctionV(params, body)), Ok(Unit))

(* Variant: the existence check looks at the innermost frame only.         *)
AssignmentStmtTopOnly(s, g, name, val) ==
    IF name \in DOMAIN s[Len(s)].local
    THEN Env(s, g, Err("The variable already exists"))
    ELSE Env(InsertTop(s, name, val), g, Ok(Unit))

(* Stmt::Assignment after the value is known: the existence check by       *)
(* lookup_mut, then the insert into the last frame.                        *)
AssignmentStmt(s, g, name, val) ==
    IF LookupMut(s, g, name) # <<>>
    THEN Env(s, g, Err("The variable already exists"))
    ELSE Env(InsertTop(s, name, val), g, Ok(Unit))

(* Variant: the assignment writes the innermost frame.                     *)
ReassignIdentLocal(s, g, name, val) ==
    IF LookupMut(s, g, name) = <<>>
    THEN Env(s, g, Err("The variable does not exist"))
    ELSE Env(InsertTop(s, name, val), g, Ok(Unit))

(* Stmt::Reassignment, AssignmentTarget::Ident: *exists = val.             *)
ReassignIdent(s, g, name, val) ==
    LET h == LookupMut(s, g, name) IN
    IF h = <<>> THEN Env(s, g, Err("The variable does not exist"))
    ELSE Env(StoreStack(s, h[1], name, val), StoreGlobal(g, h[1], name, val),
             Ok(Unit))

(* Variant: the store drops the elements that follow the slot.             *)
AssignFinalTruncate(cur, final_idx, val) ==
    CASE cur.t = "Array" ->
           IF UsizeGe(final_idx, Len(cur.v)) THEN Err("Array index out of bounds")
           ELSE Ok(ArrayV(Append(SubSeq(cur.v, 1, final_idx.n), val)))
      [] cur.t = "Str" ->
           IF UsizeGe(final_idx, Len(cur.v)) THEN Err("String index out of bounds")
           ELSE IF val.t # "Str" THEN Err("Can only assign string to string index")
           ELSE IF Len(val.v) # 1
                THEN Err("Can only assign single character to string index")
           ELSE Ok(StrV(Append(SubSeq(cur.v, 1, final_idx.n), val.v[1])))
      [] OTHER -> Err("Cannot index into")

(* The final match of the array-access assignment: cur is the value the    *)
(* walk ended on.                                                          *)
AssignFinal(cur, final_idx, val) ==
    CASE cur.t = "Array" ->
           IF UsizeGe(final_idx, Len(cur.v)) THEN Err("Array index out of bounds")
           ELSE Ok(ArrayV([cur.v EXCEPT ![final_idx.n + 1] = val]))
      [] cur.t = "Str" ->
           IF UsizeGe(final_idx, Len(cur.v)) THEN Err("String index out of bounds")
           ELSE IF val.t # "Str" THEN Err("Can only assign string to string index")
           ELSE IF Len(val.v) # 1
                THEN Err("Can only assign single character to string index")
           ELSE Ok(StrV([cur.v EXCEPT ![final_idx.n + 1] = val.v[1]]))
      [] OTHER -> Err("Cannot index into")

(* The walk `cur = &mut arr[idx]` over all indices but the last, then the  *)
(* final match; yields the new value of the whole variable.                *)
RECURSIVE AssignPath(_, _, _)
AssignPath(cur, idxs, val) ==
    IF Len(idxs) = 1 THEN AssignFinal(cur, idxs[1], val)
    ELSE IF cur.t # "Array" THEN Err("Cannot index into")
    ELSE IF UsizeGe(idxs[1], Len(cur.v)) THEN Err("Array index out of bounds")
    ELSE LET sub == AssignPath(cur.v[idxs[1].n + 1], Tail(idxs), val) IN
         IF sub.ok THEN Ok(ArrayV([cur.v EXCEPT ![idxs[1].n + 1] = sub.val]))
         ELSE sub

(* Variant: the walk works on the variable's value taken out of the        *)
(* binding, and a failure leaves the binding empty.                        *)
ReassignArrayAccessTake(s, g, name, idxs, val) ==
    LET h == LookupMut(s, g, name) IN
    IF h = <<>> THEN Env(s, g, Err("The variable does not exist"))
    ELSE LET new == AssignPath(Deref(s, g, h[1], name), idxs, val) IN
         IF ~new.ok
         THEN Env(StoreStack(s, h[1], name, Unit), StoreGlobal(g, h[1], name, Unit),
                  new)
         ELSE Env(StoreStack(s, h[1], name, new.val),
                  StoreGlobal(g, h[1], name, new.val), Ok(Unit))

(* Stmt::Reassignment, AssignmentTarget::ArrayAccess, once the indices     *)
(* are evaluated: lookup_mut, the walk, the store.                         *)
ReassignArrayAccess(s, g, name, idxs, val) ==
    LET h == LookupMut(s, g, name) IN
    IF h = <<>> THEN Env(s, g, Err("The variable does not exist"))
    ELSE LET new == AssignPath(Deref(s, g, h[1], name), idxs, val) IN
         IF ~new.ok THEN Env(s, g, new)
         ELSE Env(StoreStack(s, h[1], name, new.val),
                  StoreGlobal(g, h[1], name, new.val), Ok(Unit))

---------------------------------------------------------------------------
(* Pending activations.  Each record is a position inside run, exec_stmt   *)
(* or eval_expr at which a nested call of exec_stmt / eval_expr is awaited,*)
(* with the locals that are live at that position.                         *)

KRun(rest, res)            == [k |-> "Run", rest |-> rest, res |-> res]
KReturn                    == [k |-> "Return"]
KAssignment(name)          == [k |-> "Assignment", name |-> name]
KReassignment(target)      == [k |-> "Reassignment", target |-> target]
KReassignIdx(name, val, done, rest) ==
    [k |-> "ReassignIdx", name |-> name, val |-> val, done |-> done, rest |-> rest]
KExprStmt                  == [k |-> "ExprStmt"]
KArrayLit(done, rest)      == [k |-> "ArrayLit", done |-> done, rest |-> rest]
KUnary(op)                 == [k |-> "Unary", op |-> op]
KBinaryL(op, rhs)          == [k |-> "BinaryL", op |-> op, rhs |-> rhs]
KBinaryR(op, l)            == [k |-> "BinaryR", op |-> op, l |-> l]
KBuiltinArgs(name, done, rest) ==
    [k |-> "BuiltinArgs", name |-> name, done |-> done, rest |-> rest]
KCallArgs(name, params, body, done, rest) ==
    [k |-> "CallArgs", name |-> name, params |-> params, body |-> body,
     done |-> done, rest |-> rest]
(* g_saved: the frame stack as it was just before the call's frame was     *)
(* pushed; g_sig: the first value that reached the body loop as            *)
(* Flow::Continue although a Return had produced it, when statements of    *)
(* the body were still to run.                                             *)
KCallBody(rest, res, g_saved, g_sig) ==
    [k |-> "CallBody", rest |-> rest, res |-> res, g_saved |-> g_saved,
     g_sig |-> g_sig]
(* g_depth: the number of frames on the stack when the construct started.  *)
KIfCond(then, else_, g_depth) ==
    [k |-> "IfCond", then |-> then, else_ |-> else_, g_depth |-> g_depth]
KIfBody(rest, res, g_depth) ==
    [k |-> "IfBody", rest |-> rest, res |-> res, g_depth |-> g_depth]
(* g_iter: how many iterations of the body have begun.                     *)
KWhileCond(cond, body, g_sig, g_depth, g_iter) ==
    [k |-> "WhileCond", cond |-> cond, body |-> body, g_sig |-> g_sig,
     g_depth |-> g_depth, g_iter |-> g_iter]
KWhileBody(cond, body, rest, g_sig, g_depth, g_iter) ==
    [k |-> "WhileBody", cond |-> cond, body |-> body, rest |-> rest,
     g_sig |-> g_sig, g_depth |-> g_depth, g_iter |-> g_iter]
KForStart(var, end, body)  == [k |-> "ForStart", var |-> var, end |-> end, body |-> body]
KForEnd(var, st, body)     == [k |-> "ForEnd", var |-> var, st |-> st, body |-> body]
(* g_entry: the environment as it was just before the loop frame was       *)
(* pushed.  g_st: the evaluated start.  g_iter: how many iterations have   *)
(* begun.                                                                  *)
KForBody(var, i, eni, body, rest, g_entry, g_sig, g_st, g_iter) ==
    [k |-> "ForBody", var |-> var, i |-> i, eni |-> eni, body |-> body,
     rest |-> rest, g_entry |-> g_entry, g_sig |-> g_sig,
     g_st |-> g_st, g_iter |-> g_iter]
KBlock(rest, res, g_depth) ==
    [k |-> "Block", rest |-> rest, res |-> res, g_depth |-> g_depth]
KAccessIdx(cur, rest)      == [k |-> "AccessIdx", cur |-> cur, rest |-> rest]

(* History only: what a body loop notes when a Flow::Continue reaches it   *)
(* that a Return produced.                                                 *)
Sig(old, r) ==
    IF old = <<>> /\ r.g_from # "none"
    THEN <<[from |-> r.g_from, val |-> r.val]>> ELSE old

---------------------------------------------------------------------------
(* Transitions.                                                            *)

Step(g, s, c, m, f) ==
    /\ global' = g
    /\ stack' = s
    /\ ctrl' = c
    /\ mode' = m
    /\ focus' = f
    /\ UNCHANGED <<prog, result, runs, flows>>

(* Enter a nested eval_expr(e), leaving activation kont pending.           *)
Eval(kont, e) == Step(global, stack, <<kont>> \o ctrl, "eval", e)
(* The same, replacing the activation on top (it moved on).                *)
EvalOn(kont, e) == Step(global, stack, <<kont>> \o Tail(ctrl), "eval", e)
(* Enter a nested exec_stmt(st).                                           *)
Exec(kont, st) == Step(global, stack, <<kont>> \o ctrl, "exec", st)
ExecOn(kont, st) == Step(global, stack, <<kont>> \o Tail(ctrl), "exec", st)
(* The activation at hand finishes with r (before it was pushed).          *)
Yield(r) == Step(global, stack, ctrl, "ret", r)
(* The activation on top of ctrl finishes with r.                          *)
Finish(r) == Step(global, stack, Tail(ctrl), "ret", r)

Evaluating(k) == mode = "eval" /\ focus.k = k
Executing(k)  == mode = "exec" /\ focus.k = k
Got(k)        == /\ mode = "ret" /\ ctrl # <<>> /\ Head(ctrl).k = k
                 /\ focus.kind \notin {"Err", "Panic"}
Top           == Head(ctrl)

(* ---- exec_stmt ---- *)

ExecFunction ==
    /\ Executing("Function")
    /\ LET e == FunctionStmt(stack, global, focus.name, focus.params, focus.body) IN
       Step(e.global, e.stack, ctrl, "ret", ContinueR(e.res.val, "none"))

ExecReturn ==
    /\ Executing("Return")
    /\ Eval(KReturn, focus.expr)

ReturnDone ==
    /\ Got("Return")
    /\ Finish(ReturnR(focus.val))

ExecAssignment ==
    /\ Executing("Assignment")
    /\ Eval(KAssignment(focus.name), focus.value)

AssignmentDone ==
    /\ Got("Assignment")
    /\ LET e == AssignmentStmt(stack, global, Top.name, focus.val) IN
       Step(e.global, e.stack, Tail(ctrl), "ret",
            IF e.res.ok THEN ContinueR(Unit, "none") ELSE ErrR(e.res.err))

ExecReassignment ==
    /\ Executing("Reassignment")
    /\ Eval(KReassignment(focus.target), focus.value)

ReassignIdentDone ==
    /\ Got("Reassignment")
    /\ Top.target.k = "Ident"
    /\ LET e == ReassignIdent(stack, global, Top.target.name, focus.val) IN
       Step(e.global, e.stack, Tail(ctrl), "ret",
            IF e.res.ok THEN ContinueR(Unit, "none") ELSE ErrR(e.res.err))

(* The value is known; the index expressions are evaluated next.           *)
ReassignArrayValue ==
    /\ Got("Reassignment")
    /\ Top.target.k = "ArrayAccess"
    /\ EvalOn(KReassignIdx(Top.target.name, focus.val, <<>>,
                           Tail(Top.target.indices)),
              Head(Top.target.indices))

(* One index expression is evaluated: it must be an Int; after the last    *)
(* one the assignment is carried out.                                      *)
ReassignIdxDone ==
    /\ Got("ReassignIdx")
    /\ IF focus.val.t # "Int" THEN Finish(ErrR("Array index must be an integer"))
       ELSE LET done == Append(Top.done, AsUsize(focus.val.v)) IN
            IF Top.rest # <<>>
            THEN EvalOn(KReassignIdx(Top.name, Top.val, done, Tail(Top.rest)),
                        Head(Top.rest))
            ELSE LET e == ReassignArrayAccess(stack, global, Top.name, done, Top.val) IN
                 Step(e.global, e.stack, Tail(ctrl), "ret",
                      IF e.res.ok THEN ContinueR(Unit, "none") ELSE ErrR(e.res.err))

ExecExpr ==
    /\ Executing("Expr")
    /\ Eval(KExprStmt, focus.expr)

(* Stmt::Expr: Ok(Flow::Continue(value)), whatever produced the value.     *)
ExprStmtDone ==
    /\ Got("ExprStmt")
    /\ Finish(ContinueR(focus.val, focus.g_from))

(* ---- eval_expr: literals, variables, operators ---- *)

EvalLiteral ==
    /\ mode = "eval"
    /\ focus.k \in {"Int", "Bool", "Float", "Str"}
    /\ Yield(ValR(LiteralVal(focus)))

EvalArray ==
    /\ Evaluating("Array")
    /\ IF focus.elems = <<>> THEN Yield(ValR(ArrayV(<<>>)))
       ELSE Eval(KArrayLit(<<>>, Tail(focus.elems)), Head(focus.elems))

ArrayLitDone ==
    /\ Got("ArrayLit")
    /\ LET done == Append(Top.done, focus.val) IN
       IF Top.rest = <<>> THEN Finish(ValR(ArrayV(done)))
       ELSE EvalOn(KArrayLit(done, Tail(Top.rest)), Head(Top.rest))

EvalVar ==
    /\ Evaluating("Var")
    /\ Yield(OfResult(Lookup(stack, global, focus.name)))

EvalUnary ==
    /\ Evaluating("Unary")
    /\ Eval(KUnary(focus.op), focus.expr)

UnaryDone ==
    /\ Got("Unary")
    /\ Finish(OfResult(EvalUnaryOp(Top.op, focus.val)))

EvalBinary ==
    /\ Evaluating("Binary")
    /\ Eval(KBinaryL(focus.op, focus.rhs), focus.lhs)

(* Variant: And and Or short-circuit on the left operand.                  *)
BinaryLhsDoneShortCircuit ==
    /\ Got("BinaryL")
    /\ IF focus.val.t = "Bool" /\ (  (Top.op = "And" /\ ~focus.val.v)
                                   \/ (Top.op = "Or" /\ focus.val.v))
       THEN Finish(ValR(focus.val))
       ELSE EvalOn(KBinaryR(Top.op, focus.val), Top.rhs)

BinaryLhsDone ==
    /\ Got("BinaryL")
    /\ EvalOn(KBinaryR(Top.op, focus.val), Top.rhs)

BinaryRhsDone ==
    /\ Got("BinaryR")
    /\ Finish(OfResult(EvalBinOp(Top.op, Top.l, focus.val)))

EvalArrayAccess ==
    /\ Evaluating("ArrayAccess")
    /\ LET val == Lookup(stack, global, focus.name) IN
       IF ~val.ok THEN Yield(ErrR(val.err))
       ELSE IF focus.indices = <<>> THEN Yield(ValR(val.val))
       ELSE Eval(KAccessIdx(val.val, Tail(focus.indices)), Head(focus.indices))

AccessIdxDone ==
    /\ Got("AccessIdx")
    /\ LET st == AccessStep(Top.cur, focus.val) IN
       IF st.done \/ Top.rest = <<>> THEN Finish(OfResult(st.res))
       ELSE EvalOn(KAccessIdx(st.res.val, Tail(Top.rest)), Head(Top.rest))

(* ---- eval_expr: calls ---- *)

(* The (param, arg) zip inserted into the new frame's map: a repeated      *)
(* parameter name keeps the last argument.                                 *)
BindParams(params, arg_vals) ==
    [n \in {params[j] : j \in 1..Len(params)} |->
        LET last == CHOOSE j \in 1..Len(params) :
                       /\ params[j] = n
                       /\ \A m \in 1..Len(params) : params[m] = n => m <= j
        IN arg_vals[last]]

(* Variant: the call frame is linked to the caller's frame, as a loop      *)
(* frame is.                                                               *)
CallFrameLinked(s, params, arg_vals) ==
    [local |-> BindParams(params, arg_vals), parent |-> <<Len(s) - 1>>]

(* The frame of a call: Frame::new() plus the parameters.  The stack at    *)
(* the call is a parameter only so that variants can be compared.          *)
CallFrame(s, params, arg_vals) ==
    [local |-> BindParams(params, arg_vals), parent |-> FrameNew.parent]

(* Variant: arguments are passed by reference, seen where a parameter has  *)
(* the name of the caller's variable: its final value is the caller's.     *)
CallExitWriteBack(s) ==
    LET callee == s[Len(s)].local
        below  == Pop(s) IN
    IF below = <<>> THEN below
    ELSE [below EXCEPT ![Len(below)].local =
             [n \in DOMAIN @ |-> IF n \in DOMAIN callee THEN callee[n] ELSE @[n]]]

(* self.stack.pop() when the body of a call ends.                          *)
CallExit(s) == Pop(s)

(* Expr::Call from the arity check on: c is the pending-activation stack   *)
(* of the call expression itself.                                          *)
EnterCall(c, params, body, arg_vals) ==
    IF Len(params) # Len(arg_vals)
    THEN Step(global, stack, c, "ret", ErrR("Function expects arguments"))
    ELSE LET s2 == Append(stack, CallFrame(stack, params, arg_vals)) IN
         IF body = <<>> THEN Step(global, CallExit(s2), c, "ret", ValR(Unit))
         ELSE Step(global, s2,
                   <<KCallBody(Tail(body), Unit, stack, <<>>)>> \o c,
                   "exec", Head(body))

(* Variant: a name the scope defines takes priority over the registry.     *)
IsBuiltinUnlessDefined(s, g, name) ==
    name \in Builtins /\ ~Lookup(s, g, name).ok

(* Self::builtins().get(name) is Some.  The environment is a parameter     *)
(* only so that variants can be compared.                                  *)
IsBuiltin(s, g, name) == name \in Builtins

(* A name of the built-in registry: the arguments, then the built-in.      *)
EvalCallBuiltin ==
    /\ Evaluating("Call")
    /\ IsBuiltin(stack, global, focus.name)
    /\ IF focus.args = <<>> THEN Yield(OfResult(ApplyBuiltin(focus.name, <<>>)))
       ELSE Eval(KBuiltinArgs(focus.name, <<>>, Tail(focus.args)), Head(focus.args))

BuiltinArgDone ==
    /\ Got("BuiltinArgs")
    /\ LET done == Append(Top.done, focus.val) IN
       IF Top.rest = <<>> THEN Finish(OfResult(ApplyBuiltin(Top.name, done)))
       ELSE EvalOn(KBuiltinArgs(Top.name, done, Tail(Top.rest)), Head(Top.rest))

(* Any other name: lookup, the Function check, then the arguments.         *)
EvalCall ==
    /\ Evaluating("Call")
    /\ ~IsBuiltin(stack, global, focus.name)
    /\ LET func == Lookup(stack, global, focus.name) IN
       IF ~func.ok THEN Yield(ErrR(func.err))
       ELSE IF func.val.t # "Function" THEN Yield(ErrR("is not a function"))
       ELSE IF focus.args = <<>>
            THEN EnterCall(ctrl, func.val.params, func.val.body, <<>>)
       ELSE Eval(KCallArgs(focus.name, func.val.params, func.val.body, <<>>,
                           Tail(focus.args)),
                 Head(focus.args))

CallArgDone ==
    /\ Got("CallArgs")
    /\ LET done == Append(Top.done, focus.val) IN
       IF Top.rest = <<>> THEN EnterCall(Tail(ctrl), Top.params, Top.body, done)
       ELSE EvalOn(KCallArgs(Top.name, Top.params, Top.body, done, Tail(Top.rest)),
                   Head(Top.rest))

(* The body loop of a call: one statement has been executed.               *)
CallBodyDone ==
    /\ Got("CallBody")
    /\ IF focus.kind = "Return" \/ Top.rest = <<>>
       THEN Step(global, CallExit(stack), Tail(ctrl), "ret", ValR(focus.val))
       ELSE ExecOn(KCallBody(Tail(Top.rest), focus.val, Top.g_saved,
                             Sig(Top.g_sig, focus)),
                   Head(Top.rest))

(* ---- eval_expr: If, While, For, Block ---- *)

EvalIf ==
    /\ Evaluating("If")
    /\ Eval(KIfCond(focus.then, focus.else_, Len(stack)), focus.cond)

IfCondDone ==
    /\ Got("IfCond")
    /\ IF focus.val.t # "Bool" THEN Finish(ErrR("Condition Must be a Boolean"))
       ELSE LET branch == IF focus.val.v THEN Top.then ELSE Top.else_ IN
            IF branch = <<>> THEN Finish(ValR(Unit))
            ELSE ExecOn(KIfBody(Tail(branch), Unit, Top.g_depth), Head(branch))

(* What the statement loops of If and Block do with one statement's Flow:  *)
(* a Return ends the construct with Ok(v); so does the last statement.     *)
BranchFlow(flow, rest, construct) ==
    IF flow.kind = "Return" THEN [done |-> TRUE, out |-> ValFromR(flow.val, construct)]
    ELSE IF rest = <<>> THEN [done |-> TRUE, out |-> ValFromR(flow.val, flow.g_from)]
    ELSE [done |-> FALSE, out |-> flow.val]

IfBodyDone ==
    /\ Got("IfBody")
    /\ LET b == BranchFlow(focus, Top.rest, "If") IN
       IF b.done THEN Finish(b.out)
       ELSE ExecOn(KIfBody(Tail(Top.rest), b.out, Top.g_depth), Head(Top.rest))

EvalWhile ==
    /\ Evaluating("While")
    /\ Eval(KWhileCond(focus.cond, focus.body, <<>>, Len(stack), 0), focus.cond)

WhileCondDone ==
    /\ Got("WhileCond")
    /\ IF focus.val.t # "Bool" THEN Finish(ErrR("While condition Must be a Boolean"))
       ELSE IF ~focus.val.v THEN Finish(ValR(Unit))
       ELSE IF Top.body = <<>> THEN EvalOn(Top, Top.cond)
       ELSE ExecOn(KWhileBody(Top.cond, Top.body, Tail(Top.body), Top.g_sig,
                              Top.g_depth, Top.g_iter + 1),
                   Head(Top.body))

WhileBodyDone ==
    /\ Got("WhileBody")
    /\ IF focus.kind = "Return" THEN Finish(ValFromR(focus.val, "While"))
       ELSE IF Top.rest # <<>>
            THEN ExecOn(KWhileBody(Top.cond, Top.body, Tail(Top.rest),
                                   Sig(Top.g_sig, focus), Top.g_depth,
                                   Top.g_iter),
                        Head(Top.rest))
       ELSE EvalOn(KWhileCond(Top.cond, Top.body, Sig(Top.g_sig, focus),
                              Top.g_depth, Top.g_iter),
                   Top.cond)

EvalFor ==
    /\ Evaluating("For")
    /\ Eval(KForStart(focus.var, focus.end, focus.body), focus.start)

ForStartDone ==
    /\ Got("ForStart")
    /\ EvalOn(KForEnd(Top.var, focus.val, Top.body), Top.end)

(* Variant: the loop frame names its own index as its parent.              *)
ForFrameSelf(s) == [local |-> EmptyMap, parent |-> <<Len(s)>>]

(* The loop frame: parent is the index of the frame on top at the push.    *)
ForFrame(s) == [local |-> EmptyMap, parent |-> <<Len(s) - 1>>]

(* Variant: the loop frame is left on the stack.                           *)
ForExitKeep(s) == s

(* self.stack.pop() when a For loop ends.                                  *)
ForExit(s) == Pop(s)

(* Variant: each iteration gets a loop frame of its own.                   *)
ForRebindFresh(s, var, i) ==
    InsertTop(Append(Pop(s), ForFrame(Pop(s))), var, IntV(i))

(* frame.local.insert(var.clone(), Val::Int(i)) on the last frame.         *)
ForRebind(s, var, i) == InsertTop(s, var, IntV(i))

(* Variant: the next index is taken from the loop variable's binding.      *)
ForNextFromVar(kont, s) == s[Len(s)].local[kont.var].v + 1

(* The range iterator of `for i in sti..eni`: the index after kont.i.      *)
ForNext(kont, s) == kont.i + 1

(* Both bounds are known: the Int check, the push, the first iteration.    *)
(* A loop with an empty body or an empty range only pushes and pops.       *)
ForEndDone ==
    /\ Got("ForEnd")
    /\ IF Top.st.t # "Int" \/ focus.val.t # "Int"
       THEN Finish(ErrR("The range must evaluate to ineteger bounds"))
       ELSE LET s2 == Append(stack, ForFrame(stack)) IN
            IF Top.st.v >= focus.val.v \/ Top.body = <<>>
            THEN Step(global, ForExit(s2), Tail(ctrl), "ret", ValR(Unit))
            ELSE Step(global, ForRebind(s2, Top.var, Top.st.v),
                      <<KForBody(Top.var, Top.st.v, focus.val.v, Top.body,
                                 Tail(Top.body),
                                 [stack |-> stack, global |-> global], <<>>,
                                 Top.st.v, 1)>>
                          \o Tail(ctrl),
                      "exec", Head(Top.body))

ForBodyDone ==
    /\ Got("ForBody")
    /\ IF focus.kind = "Return"
       THEN Step(global, ForExit(stack), Tail(ctrl), "ret",
                 ValFromR(focus.val, "For"))
       ELSE IF Top.rest # <<>>
            THEN ExecOn([Top EXCEPT !.rest = Tail(Top.rest),
                                    !.g_sig = Sig(Top.g_sig, focus)],
                        Head(Top.rest))
       ELSE IF ForNext(Top, stack) >= Top.eni
            THEN Step(global, ForExit(stack), Tail(ctrl), "ret", ValR(Unit))
       ELSE Step(global, ForRebind(stack, Top.var, ForNext(Top, stack)),
                 <<[Top EXCEPT !.i = ForNext(Top, stack),
                               !.rest = Tail(Top.body),
                               !.g_iter = Top.g_iter + 1,
                               !.g_sig = Sig(Top.g_sig, focus)]>> \o Tail(ctrl),
                 "exec", Head(Top.body))

EvalBlock ==
    /\ Evaluating("Block")
    /\ IF focus.stmts = <<>> THEN Yield(ValR(Unit))
       ELSE Exec(KBlock(Tail(focus.stmts), Unit, Len(stack)), Head(focus.stmts))

BlockDone ==
    /\ Got("Block")
    /\ LET b == BranchFlow(focus, Top.rest, "Block") IN
       IF b.done THEN Finish(b.out)
       ELSE ExecOn(KBlock(Tail(Top.rest), b.out, Top.g_depth), Head(Top.rest))

(* ---- errors and run ---- *)

(* The `?` of a pending activation: the Err is handed on unchanged and     *)
(* nothing else is done (in particular no frame is popped).                *)
PropagateErr ==
    /\ mode = "ret"
    /\ focus.kind = "Err"
    /\ ctrl # <<>>
    /\ Top.k # "Run"
    /\ Finish(focus)

(* Variant: a top-level Return is taken as an ordinary value.              *)
RunStepKeepGoing(flow, rest) ==
    IF flow.kind = "Err" THEN [done |-> TRUE, res |-> Err(flow.err)]
    ELSE IF rest = <<>> THEN [done |-> TRUE, res |-> Ok(flow.val)]
    ELSE [done |-> FALSE, res |-> Ok(flow.val)]

(* What the loop of Interpreter::run does with the outcome of one          *)
(* top-level statement, rest being the statements still to run.            *)
RunStep(flow, rest) ==
    CASE flow.kind = "Err"    -> [done |-> TRUE, res |-> Err(flow.err)]
      [] flow.kind = "Return" -> [done |-> TRUE, res |-> Ok(flow.val)]
      [] OTHER -> IF rest = <<>> THEN [done |-> TRUE, res |-> Ok(flow.val)]
                  ELSE [done |-> FALSE, res |-> Ok(flow.val)]

Pending == [k |-> "Pending"]

---------------------------------------------------------------------------
(* The programs handed to run(): the sources of the repository's tests and *)
(* of the scenarios of the documentation, with small variations.           *)

Lt(l, r)  == BinaryE("Lt", l, r)
Add(l, r) == BinaryE("Add", l, r)
Let(n, e) == Assignment(n, e)
Set(n, e) == Reassignment(TIdent(n), e)
SetAt(n, idxs, e) == Reassignment(TArrayAccess(n, idxs), e)

(* (empty source) *)
P_Empty == <<>>

(* let x = 42  x *)
P_Vars == << Let("x", IntE(42)), ExprS(VarE("x")) >>

(* x *)
P_ReadX == << ExprS(VarE("x")) >>

(* return 3  let y = 1 *)
P_TopReturn == << Return(IntE(3)), Let("y", IntE(1)) >>

(* let x = 1  fn f() { return 1 / 0 }  f() *)
P_DivZero ==
    << Let("x", IntE(1)),
       Function("f", <<>>, << Return(BinaryE("Div", IntE(1), IntE(0))) >>),
       ExprS(CallE("f", <<>>)) >>

(* fn f(n) { if (n < 1) { return 1 }  return 2 }  f(0) *)
P_IfReturn ==
    << Function("f", <<"n">>,
           << ExprS(IfE(Lt(VarE("n"), IntE(1)), << Return(IntE(1)) >>, <<>>)),
              Return(IntE(2)) >>),
       ExprS(CallE("f", << IntE(0) >>)) >>

(* fn g(n) { while (n < 1) { return 1 }  return 2 }  g(0) *)
P_WhileReturn ==
    << Function("g", <<"n">>,
           << ExprS(WhileE(Lt(VarE("n"), IntE(1)), << Return(IntE(1)) >>)),
              Return(IntE(2)) >>),
       ExprS(CallE("g", << IntE(0) >>)) >>

(* fn g() { for i in 0..2 { if (i < 1) { return 7 } }
            for i in 0..2 { return i }  8 }  g() *)
P_ForReturn ==
    << Function("g", <<>>,
           << ExprS(ForE("i", IntE(0), IntE(2),
                  << ExprS(IfE(Lt(VarE("i"), IntE(1)), << Return(IntE(7)) >>, <<>>)) >>)),
              ExprS(ForE("i", IntE(0), IntE(2), << Return(VarE("i")) >>)),
              ExprS(IntE(8)) >>),
       ExprS(CallE("g", <<>>)) >>

(* fn f(n) { if (n <= 1) { return 1 } else { return n * f(n - 1) } }  f(3) *)
P_Factorial ==
    << Function("f", <<"n">>,
           << ExprS(IfE(BinaryE("Le", VarE("n"), IntE(1)),
                  << Return(IntE(1)) >>,
                  << Return(BinaryE("Mul", VarE("n"),
                         CallE("f", << BinaryE("Sub", VarE("n"), IntE(1)) >>))) >>)) >>),
       ExprS(CallE("f", << IntE(3) >>)) >>

(* let y = 1  fn h(n) { let y = 5  y = y + n  return y }  h(2) + y *)
P_LocalLet ==
    << Let("y", IntE(1)),
       Function("h", <<"n">>,
           << Let("y", IntE(5)), Set("y", Add(VarE("y"), VarE("n"))),
              Return(VarE("y")) >>),
       ExprS(Add(CallE("h", << IntE(2) >>), VarE("y"))) >>

(* let y = 1  fn h() { y = 2 }  h() *)
P_AssignCaller ==
    << Let("y", IntE(1)),
       Function("h", <<>>, << Set("y", IntE(2)) >>),
       ExprS(CallE("h", <<>>)) >>

(* let s = 0  for i in 0..5 { s = s + i }  s *)
P_ForSum ==
    << Let("s", IntE(0)),
       ExprS(ForE("i", IntE(0), IntE(5), << Set("s", Add(VarE("s"), VarE("i"))) >>)),
       ExprS(VarE("s")) >>

(* let i = 9  for i in 0..1 { let t = i  i = 5 }  i *)
P_ForShadow ==
    << Let("i", IntE(9)),
       ExprS(ForE("i", IntE(0), IntE(1),
           << Let("t", VarE("i")), Set("i", IntE(5)) >>)),
       ExprS(VarE("i")) >>

(* let n = 2  let c = 0  for i in 0..n { n = 1  i = 7  c = c + 1 }  c *)
P_ForMutate ==
    << Let("n", IntE(2)), Let("c", IntE(0)),
       ExprS(ForE("i", IntE(0), VarE("n"),
           << Set("n", IntE(1)), Set("i", IntE(7)),
              Set("c", Add(VarE("c"), IntE(1))) >>)),
       ExprS(VarE("c")) >>

(* fn g() { g = 2 }  g()  g *)
P_SetFn ==
    << Function("g", <<>>, << Set("g", IntE(2)) >>),
       ExprS(CallE("g", <<>>)),
       ExprS(VarE("g")) >>

(* for i in 0..2 { let w = i } *)
P_ForLetTwice ==
    << ExprS(ForE("i", IntE(0), IntE(2), << Let("w", VarE("i")) >>)) >>

(* let b = 0  while (b < 2) { let v = b  b = b + 1 } *)
P_WhileLetTwice ==
    << Let("b", IntE(0)),
       ExprS(WhileE(Lt(VarE("b"), IntE(2)),
           << Let("v", VarE("b")), Set("b", Add(VarE("b"), IntE(1))) >>)) >>

(* let s = 0  for i in 0..2 { let s = 1 } *)
P_ForRelet ==
    << Let("s", IntE(0)),
       ExprS(ForE("i", IntE(0), IntE(2), << Let("s", IntE(1)) >>)) >>

(* let a = [[1], "hi"]  fn f(a) { a[0][0] = 9  a[1][0] = "x"  a = 3 }  f(a)  a *)
P_ArgCopy ==
    << Let("a", ArrayE(<< ArrayE(<< IntE(1) >>), StrE(<<"h", "i">>) >>)),
       Function("f", <<"a">>,
           << SetAt("a", << IntE(0), IntE(0) >>, IntE(9)),
              SetAt("a", << IntE(1), IntE(0) >>, StrE(<<"x">>)),
              Set("a", IntE(3)) >>),
       ExprS(CallE("f", << VarE("a") >>)),
       ExprS(VarE("a")) >>

(* let a = [1, 2]  let b = a  b[0] = -len(b)  a[0] *)
P_LetCopy ==
    << Let("a", ArrayE(<< IntE(1), IntE(2) >>)),
       Let("b", VarE("a")),
       SetAt("b", << IntE(0) >>, UnaryE("Neg", CallE("len", << VarE("b") >>))),
       ExprS(ArrayAccessE("a", << IntE(0) >>)) >>

(* fn f() { for i in 0..1 { fn g() { return 1 } } }  f()  g() *)
P_NestedFn ==
    << Function("f", <<>>,
           << ExprS(ForE("i", IntE(0), IntE(1),
                  << Function("g", <<>>, << Return(IntE(1)) >>) >>)) >>),
       ExprS(CallE("f", <<>>)),
       ExprS(CallE("g", <<>>)) >>

(* { let f = 1 }  fn f() { return 1 }  f() *)
P_ShadowedFn ==
    << ExprS(BlockE(<< Let("f", IntE(1)) >>)),
       Function("f", <<>>, << Return(IntE(1)) >>),
       ExprS(CallE("f", <<>>)) >>

(* for i in 0..1 { let y = i  fn y() { return 1 } }  y *)
P_ForFn ==
    << ExprS(ForE("i", IntE(0), IntE(1),
           << Let("y", VarE("i")),
              Function("y", <<>>, << Return(IntE(1)) >>) >>)),
       ExprS(VarE("y")) >>

(* let x = 0  while (x < 2) { x = x + 1 }  x *)
P_While ==
    << Let("x", IntE(0)),
       ExprS(WhileE(Lt(VarE("x"), IntE(2)), << Set("x", Add(VarE("x"), IntE(1))) >>)),
       ExprS(VarE("x")) >>

(* if (true) { let v = 1 }  { let w = 2 }  let x = 0                       *)
(* while (x < 1) { let u = 3  x = x + 1 }  v + w + u                       *)
P_IfLet ==
    << ExprS(IfE(BoolE(TRUE), << Let("v", IntE(1)) >>, <<>>)),
       ExprS(BlockE(<< Let("w", IntE(2)) >>)),
       Let("x", IntE(0)),
       ExprS(WhileE(Lt(VarE("x"), IntE(1)),
           << Let("u", IntE(3)), Set("x", Add(VarE("x"), IntE(1))) >>)),
       ExprS(Add(Add(VarE("v"), VarE("w")), VarE("u"))) >>

(* fn f() { return 1 / 0 }  if (true) { f() } *)
P_IfCallErr ==
    << Function("f", <<>>, << Return(BinaryE("Div", IntE(1), IntE(0))) >>),
       ExprS(IfE(BoolE(TRUE), << ExprS(CallE("f", <<>>)) >>, <<>>)) >>

(* let s = "ab" * 2  s * (0 - 1) *)
P_RepeatNeg ==
    << Let("s", BinaryE("Mul", StrE(<<"a", "b">>), IntE(2))),
       ExprS(BinaryE("Mul", VarE("s"), BinaryE("Sub", IntE(0), IntE(1)))) >>

(* let x = 0  let r = false && { x = 1  true }  [r, x] *)
P_AndBoth ==
    << Let("x", IntE(0)),
       Let("r", BinaryE("And", BoolE(FALSE),
                    BlockE(<< Set("x", IntE(1)), ExprS(BoolE(TRUE)) >>))),
       ExprS(ArrayE(<< VarE("r"), VarE("x") >>)) >>

(* let x = 0  let r = true || { x = 1  false }  [r, x] *)
P_OrBoth ==
    << Let("x", IntE(0)),
       Let("r", BinaryE("Or", BoolE(TRUE),
                    BlockE(<< Set("x", IntE(1)), ExprS(BoolE(FALSE)) >>))),
       ExprS(ArrayE(<< VarE("r"), VarE("x") >>)) >>

(* let x = 0  (1 / 0 == 1) && { x = 1  true } *)
P_LhsFails ==
    << Let("x", IntE(0)),
       ExprS(BinaryE("And",
           BinaryE("Eq", BinaryE("Div", IntE(1), IntE(0)), IntE(1)),
           BlockE(<< Set("x", IntE(1)), ExprS(BoolE(TRUE)) >>))) >>

(* fn len(a) { return 99 }  let abs = 5  [len([1, 2]), abs(0 - 3)] *)
P_UserLen ==
    << Function("len", <<"a">>, << Return(IntE(99)) >>),
       Let("abs", IntE(5)),
       ExprS(ArrayE(<< CallE("len", << ArrayE(<< IntE(1), IntE(2) >>) >>),
                       CallE("abs", << BinaryE("Sub", IntE(0), IntE(3)) >>) >>)) >>

(* nope(1) *)
P_CallUnknown == << ExprS(CallE("nope", << IntE(1) >>)) >>

(* let word = "hi"  let box = [word]  [box[0][1], word[0][1]] *)
P_StrIndex ==
    << Let("word", StrE(<<"h", "i">>)),
       Let("box", ArrayE(<< VarE("word") >>)),
       ExprS(ArrayE(<< ArrayAccessE("box", << IntE(0), IntE(1) >>),
                       ArrayAccessE("word", << IntE(0), IntE(1) >>) >>)) >>

(* let m = [[1, 2], [3, 4]]  m[1][0] = 99  m *)
P_Nested ==
    << Let("m", ArrayE(<< ArrayE(<< IntE(1), IntE(2) >>),
                          ArrayE(<< IntE(3), IntE(4) >>) >>)),
       SetAt("m", << IntE(1), IntE(0) >>, IntE(99)),
       ExprS(VarE("m")) >>

(* let t = "hi"  for i in 0..1 { t[1] = "o" }  [t, len(t)] *)
P_StrSet ==
    << Let("t", StrE(<<"h", "i">>)),
       ExprS(ForE("i", IntE(0), IntE(1),
           << SetAt("t", << IntE(1) >>, StrE(<<"o">>)) >>)),
       ExprS(ArrayE(<< VarE("t"), CallE("len", << VarE("t") >>) >>)) >>

(* Single assignments, as typed at the prompt after m (P_Nested) or word   *)
(* and box (P_StrIndex) have been declared.                                *)
(* m[m] = 1 *)
P_BadNonInt == << SetAt("m", << VarE("m") >>, IntE(1)) >>
(* m[2][0] = 1 *)
P_BadDepth  == << SetAt("m", << IntE(2), IntE(0) >>, IntE(1)) >>
(* m[0][2] = 1 *)
P_BadFinal  == << SetAt("m", << IntE(0), IntE(2) >>, IntE(1)) >>
(* m[0 - 1] = 1 *)
P_BadNeg    == << SetAt("m", << BinaryE("Sub", IntE(0), IntE(1)) >>, IntE(1)) >>
(* box[0][0][0] = 1 *)
P_BadWalk   == << SetAt("box", << IntE(0), IntE(0), IntE(0) >>, IntE(1)) >>
(* m[0][0][0] = 1 *)
P_BadInt    == << SetAt("m", << IntE(0), IntE(0), IntE(0) >>, IntE(1)) >>
(* zz[0] = 1 *)
P_BadUnres  == << SetAt("zz", << IntE(0) >>, IntE(1)) >>
(* word[0] = 1 *)
P_BadNotStr == << SetAt("word", << IntE(0) >>, IntE(1)) >>
(* word[0] = word *)
P_BadTwo    == << SetAt("word", << IntE(0) >>, VarE("word")) >>
(* word[2] = word[0] *)
P_BadStrOob == << SetAt("word", << IntE(2) >>, ArrayAccessE("word", << IntE(0) >>)) >>

Programs ==
    << P_Empty, P_Vars, P_ReadX, P_TopReturn, P_DivZero, P_IfReturn,
       P_WhileReturn, P_ForReturn, P_Factorial, P_LocalLet, P_AssignCaller,
       P_ForSum, P_ForShadow, P_ForRelet, P_ArgCopy, P_LetCopy, P_NestedFn,
       P_ShadowedFn, P_ForFn, P_While, P_IfLet, P_IfCallErr,
       P_RepeatNeg, P_AndBoth, P_OrBoth, P_LhsFails,
       P_UserLen, P_CallUnknown, P_StrIndex, P_Nested, P_StrSet,
       P_BadNonInt, P_BadDepth, P_BadFinal, P_BadNeg, P_BadWalk, P_BadInt,
       P_BadUnres, P_BadNotStr, P_BadTwo, P_BadStrOob, P_ForMutate,
       P_ForLetTwice, P_WhileLetTwice, P_SetFn >>

(* How many run() calls are made on one Interpreter.                       *)
MaxRuns == 2

---------------------------------------------------------------------------
(* Interpreter::new() and Interpreter::run.                                *)

Init ==
    /\ global = EmptyMap
    /\ stack = << FrameNew >>
    /\ ctrl = <<>>
    /\ mode = "idle"
    /\ focus = None
    /\ prog = <<>>
    /\ result = None
    /\ runs = 0
    /\ flows = <<>>

(* run(&program): `let mut res = Val::Unit` and the first statement.       *)
Run ==
    /\ mode = "idle"
    /\ runs < MaxRuns
    /\ \E j \in 1..Len(Programs) :
         LET source == Programs[j] IN
         /\ prog' = source
         /\ runs' = runs + 1
         /\ flows' = <<>>
         /\ UNCHANGED <<global, stack>>
         /\ IF source = <<>>
            THEN /\ result' = Ok(Unit)
                 /\ UNCHANGED <<ctrl, mode, focus>>
            ELSE /\ result' = Pending
                 /\ ctrl' = << KRun(Tail(source), Unit) >>
                 /\ mode' = "exec"
                 /\ focus' = Head(source)

(* One top-level statement has been executed (or has failed).              *)
RunDone ==
    /\ mode = "ret"
    /\ ctrl # <<>>
    /\ Top.k = "Run"
    /\ focus.kind # "Panic"
    /\ LET r == RunStep(focus, Top.rest) IN
       /\ flows' = IF focus.kind = "Err" THEN flows
                   ELSE Append(flows, [kind |-> focus.kind, val |-> focus.val])
       /\ UNCHANGED <<global, stack, prog, runs>>
       /\ IF r.done
          THEN /\ result' = r.res
               /\ ctrl' = <<>>
               /\ mode' = "idle"
               /\ focus' = None
          ELSE /\ result' = result
               /\ ctrl' = << KRun(Tail(Top.rest), r.res.val) >>
               /\ mode' = "exec"
               /\ focus' = Head(Top.rest)

Next ==
    \/ Run
    \/ RunDone
    \/ PropagateErr
    \/ ExecFunction
    \/ ExecReturn
    \/ ReturnDone
    \/ ExecAssignment
    \/ AssignmentDone
    \/ ExecReassignment
    \/ ReassignIdentDone
    \/ ReassignArrayValue
    \/ ReassignIdxDone
    \/ ExecExpr
    \/ ExprStmtDone
    \/ EvalLiteral
    \/ EvalArray
    \/ ArrayLitDone
    \/ EvalVar
    \/ EvalUnary
    \/ UnaryDone
    \/ EvalBinary
    \/ BinaryLhsDone
    \/ BinaryRhsDone
    \/ EvalArrayAccess
    \/ AccessIdxDone
    \/ EvalCallBuiltin
    \/ BuiltinArgDone
    \/ EvalCall
    \/ CallArgDone
    \/ CallBodyDone
    \/ EvalIf
    \/ IfCondDone
    \/ IfBodyDone
    \/ EvalWhile
    \/ WhileCondDone
    \/ WhileBodyDone
    \/ EvalFor
    \/ ForStartDone
    \/ ForEndDone
    \/ ForBodyDone
    \/ EvalBlock
    \/ BlockDone

Spec == Init /\ [][Next]_vars

---------------------------------------------------------------------------
(* Vocabulary of the properties.                                           *)

Idle == mode = "idle"

(* Positions in ctrl of the body loops of user function calls; the first   *)
(* is the innermost call.                                                  *)
CallKonts == {j \in 1..Len(ctrl) : ctrl[j].k = "CallBody"}
InCall == CallKonts # {}
InnerCallAt == CHOOSE j \in CallKonts : \A m \in CallKonts : j <= m

(* Every name bound anywhere in the environment.                           *)
BoundNames(s, g) == (DOMAIN g) \cup UNION {DOMAIN s[j].local : j \in 1..Len(s)}

(* The frames (TLA+ indices) on the parent chain of frame j.               *)
RECURSIVE ChainFrom(_, _)
ChainFrom(s, j) ==
    IF s[j].parent = <<>> THEN {j} ELSE {j} \cup ChainFrom(s, s[j].parent[1] + 1)

(* The innermost frame of the chain of the top frame that binds name:      *)
(* {} when none does.                                                      *)
Binders(s, name) == {j \in ChainFrom(s, Len(s)) : name \in DOMAIN s[j].local}
FirstBinder(s, name) ==
    CHOOSE j \in Binders(s, name) : \A m \in Binders(s, name) : m <= j

(* The statement-level step at hand, recognised from the state before it.  *)
LetStep      == Got("Assignment")
AssignStep   == Got("Reassignment") /\ Top.target.k = "Ident"
FunctionStep == Executing("Function")
CallReturns  == Got("CallBody") /\ ctrl' = Tail(ctrl) /\ mode' = "ret"
ForEnds      == Got("ForBody") /\ ctrl' = Tail(ctrl) /\ mode' = "ret"

---------------------------------------------------------------------------
(* C1: a Return executed in a branch of an If that is a statement of a     *)
(* user function's body ends the call: no statement that follows the If in *)
(* that body is executed.  (g_sig of a call's body loop is set exactly     *)
(* when the loop goes on to a further statement although the statement     *)
(* just executed had produced its value by a Return.)                      *)
C1_IfReturnEndsCall ==
    \A j \in CallKonts :
        ctrl[j].g_sig = <<>> \/ ctrl[j].g_sig[1].from # "If"

(* C2: a Return executed in the body of a While or For loop that is a      *)
(* statement of a user function's body stops the loop and ends the call:   *)
(* no statement that follows the loop in the function body is executed,    *)
(* and, when the Return is nested in an If or Block of the loop body, no   *)
(* further statement of the loop body is executed either.                  *)
C2_LoopReturnEndsCall ==
    /\ \A j \in CallKonts :
          ctrl[j].g_sig = <<>> \/ ctrl[j].g_sig[1].from \notin {"While", "For"}
    /\ \A j \in 1..Len(ctrl) :
          (ctrl[j].k \in {"WhileBody", "ForBody"} /\ \E m \in CallKonts : m > j)
              => ctrl[j].g_sig = <<>>

C4_EnvironmentPersists ==
    Idle => \A n \in DOMAIN stack[1].local :
                Lookup(stack, global, n) = Ok(stack[1].local[n])

(* C5: a let of a name that is resolvable fails with "variable already     *)
(* exists" and changes no binding; a let of a name that is not resolvable  *)
(* binds it in the innermost frame only, after which reading the name      *)
(* yields the value of the initialiser.                                    *)
C5_Shadowing ==
    [][LetStep =>
        LET name == Top.name
            top  == Len(stack) IN
        IF Lookup(stack, global, name).ok
        THEN /\ focus'.kind = "Err"
             /\ focus'.err = "The variable already exists"
             /\ stack' = stack
             /\ global' = global
        ELSE /\ focus'.kind = "Continue"
             /\ global' = global
             /\ Len(stack') = top
             /\ \A j \in 1..(top - 1) : stack'[j] = stack[j]
             /\ stack'[top].parent = stack[top].parent
             /\ DOMAIN stack'[top].local = (DOMAIN stack[top].local) \cup {name}
             /\ \A n \in DOMAIN stack[top].local :
                   stack'[top].local[n] = stack[top].local[n]
             /\ Lookup(stack', global', name) = Ok(focus.val)
      ]_vars

(* C5 witness: a let inside a For body of a name bound in the enclosing    *)
(* frame has just failed.                                                  *)
C5_Witness ==
    /\ mode = "ret"
    /\ focus.kind = "Err"
    /\ focus.err = "The variable already exists"
    /\ Len(stack) = 2
    /\ stack[2].parent = <<0>>
    /\ "s" \in DOMAIN stack[1].local
    /\ "s" \notin DOMAIN stack[2].local

(* C6: while the body of a user function executes, a name is resolvable    *)
(* (by lookup for a read, by lookup_mut for Assign and for the check of    *)
(* let) only if a frame of that call binds it or it is a key of the global *)
(* table, and the frames of the callers stay exactly as they were when     *)
(* the call was entered.                                                   *)
C6_CallScopeIsolation ==
    /\ \A j \in CallKonts :
          /\ Len(ctrl[j].g_saved) < Len(stack)
          /\ SubSeq(stack, 1, Len(ctrl[j].g_saved)) = ctrl[j].g_saved
    /\ InCall =>
          LET base == Len(ctrl[InnerCallAt].g_saved) IN
          \A n \in BoundNames(stack, global) :
             /\ Lookup(stack, global, n).ok =>
                   \/ n \in DOMAIN global
                   \/ \E m \in (base + 1)..Len(stack) : n \in DOMAIN stack[m].local
             /\ LookupMut(stack, global, n) # <<>> =>
                   \/ LookupMut(stack, global, n)[1].where = "global"
                   \/ LookupMut(stack, global, n)[1].idx >= base

(* C6 witness: inside a call, an Assign to a variable of the caller's base *)
(* frame has just failed because the name does not resolve.                *)
C6_Witness ==
    /\ InCall
    /\ mode = "ret"
    /\ focus.kind = "Err"
    /\ focus.err = "The variable does not exist"
    /\ "y" \in DOMAIN stack[1].local
    /\ ~Lookup(stack, global, "y").ok

(* C7, as claimed: when a For loop has finished, no name bound in the loop *)
(* frame (the loop variable, the lets of the body) is resolvable, unless   *)
(* the name was resolvable before the loop, and then it resolves to the    *)
(* enclosing binding.                                                      *)
C7_ForScope_Claimed ==
    [][ForEnds =>
        \A n \in DOMAIN stack[Len(stack)].local :
            Lookup(stack', global', n).ok =>
                /\ Lookup(Top.g_entry.stack, Top.g_entry.global, n).ok
                /\ Lookup(stack', global', n) = Lookup(Pop(stack), global, n)
      ]_vars

(* C7, amended: when a For loop has finished, no name bound in the loop    *)
(* frame is resolvable, unless the name was bound on the enclosing parent  *)
(* chain before the loop or is a key of the global table (where a Function *)
(* statement of the loop body may have put it), and then it resolves to    *)
(* that enclosing or global binding.                                       *)
C7_ForScope ==
    [][ForEnds =>
        \A n \in DOMAIN stack[Len(stack)].local :
            Lookup(stack', global', n).ok =>
                /\ \/ Lookup(Top.g_entry.stack, Top.g_entry.global, n).ok
                   \/ n \in DOMAIN global
                /\ Lookup(stack', global', n) = Lookup(Pop(stack), global, n)
      ]_vars

(* C7 witness: after `let i = 9  for i in 0..1 { let t = i  i = 5 }  i`    *)
(* the name i resolves to the enclosing 9 and t is not resolvable.         *)
C7_Witness ==
    /\ Idle
    /\ prog = P_ForShadow
    /\ result = Ok(IntV(9))
    /\ Lookup(stack, global, "i") = Ok(IntV(9))
    /\ ~Lookup(stack, global, "t").ok

(* C8: in a For body, a read of a name bound only in an enclosing frame of *)
(* the parent chain yields the enclosing value, and an Assign to it        *)
(* overwrites that binding in place and creates none in the loop frame;    *)
(* the scenario `let s = 0  for i in 0..5 { s = s + i }  s` yields 10.     *)
C8_ForEnclosing ==
    /\ [][(/\ stack[Len(stack)].parent # <<>>
           /\ mode = "eval"
           /\ focus.k = "Var"
           /\ focus.name \notin DOMAIN stack[Len(stack)].local
           /\ Binders(stack, focus.name) # {})
          => focus' = ValR(stack[FirstBinder(stack, focus.name)].local[focus.name])
        ]_vars
    /\ [][(/\ AssignStep
           /\ stack[Len(stack)].parent # <<>>
           /\ Top.target.name \notin DOMAIN stack[Len(stack)].local
           /\ Binders(stack, Top.target.name) # {})
          => /\ stack' = [stack EXCEPT
                            ![FirstBinder(stack, Top.target.name)]
                                .local[Top.target.name] = focus.val]
             /\ global' = global
             /\ focus'.kind = "Continue"
        ]_vars
    /\ [](Idle /\ prog = P_ForSum /\ result.ok => result.val = IntV(10))

(* C8 witness: the accumulator scenario has finished with 10 in s.         *)
C8_Witness ==
    /\ Idle
    /\ prog = P_ForSum
    /\ result = Ok(IntV(10))
    /\ stack[1].local["s"] = IntV(10)

(* C9: when a user function call returns, the frame stack is exactly what  *)
(* it was when the call was made, whatever the body assigned to its        *)
(* parameters or stored into them; and after `let b = a` a store into b    *)
(* leaves a as it was.                                                     *)
C9_ValueSemantics ==
    /\ [][CallReturns => stack' = Top.g_saved]_vars
    /\ [](Idle /\ prog = P_ArgCopy /\ result.ok =>
             result.val = ArrayV(<< ArrayV(<< IntV(1) >>), StrV(<<"h", "i">>) >>))
    /\ [](Idle /\ prog = P_LetCopy /\ result.ok =>
             /\ result.val = IntV(1)
             /\ Lookup(stack, global, "b").ok
             /\ Lookup(stack, global, "a").ok
             /\ Lookup(stack, global, "b").val = ArrayV(<< IntV(0 - 2), IntV(2) >>)
             /\ Lookup(stack, global, "a").val = ArrayV(<< IntV(1), IntV(2) >>))

(* C9 witness: f(a) has stored into two depths of its parameter and        *)
(* reassigned it, and the caller's a is the array it was.                  *)
C9_Witness ==
    /\ Idle
    /\ prog = P_ArgCopy
    /\ result = Ok(ArrayV(<< ArrayV(<< IntV(1) >>), StrV(<<"h", "i">>) >>))

---------------------------------------------------------------------------
(* The activations of If, While and Block.                                 *)
ScopeKonts == {"IfCond", "IfBody", "WhileCond", "WhileBody", "Block"}

(* C11: If, While and Block never push or pop a frame.  Their own steps    *)
(* leave the frame stack as it is; whenever control comes back to one of   *)
(* them (its condition or a statement of its body has been evaluated, with *)
(* a value or with an error) the stack has the depth it had when the       *)
(* construct started; a let that is a statement of their branch or body    *)
(* binds in the frame that was innermost when the construct started; and   *)
(* what was declared there is resolvable after the construct (v, w and u   *)
(* of the scenario add up to 6).                                           *)
C11_NoFrameConstructs ==
    /\ [][((mode = "eval" /\ focus.k \in {"If", "While", "Block"})
            \/ (mode = "ret" /\ ctrl # <<>> /\ Top.k \in ScopeKonts))
           => stack' = stack]_vars
    /\ [][(mode' = "ret" /\ ctrl' # <<>> /\ ctrl'[1].k \in ScopeKonts)
           => Len(stack') = ctrl'[1].g_depth]_vars
    /\ [][(LetStep /\ Len(ctrl) > 1 /\ ctrl[2].k \in ScopeKonts
              /\ focus'.kind = "Continue")
           => /\ Top.name \in DOMAIN stack'[ctrl[2].g_depth].local
              /\ Lookup(stack', global', Top.name) = Ok(focus.val)]_vars
    /\ [][(Idle' /\ prog' = P_IfLet /\ result'.ok) => result'.val = IntV(6)]_vars

---------------------------------------------------------------------------
(* eval_bin_op on its own: the operator and the two operand values are     *)
(* drawn, the function is applied once.                                    *)

(* enum BinaryOp.                                                          *)
BinaryOps ==
    {"Add", "Sub", "Mul", "Div", "Mod", "Eq", "Ne", "Lt", "Le", "Gt", "Ge",
     "And", "Or"}

(* Operand values of every kind of enum Val.                               *)
OpValues ==
    << IntV(0 - 1), IntV(0), IntV(2),
       FloatV(Rat(0 - 3, 2)), FloatV(Rat(0, 1)), FloatV(Rat(1, 2)),
       BoolV(TRUE), BoolV(FALSE),
       StrV(<<>>), StrV(<<"a", "b">>),
       ArrayV(<<>>), ArrayV(<< IntV(1) >>),
       FunctionV(<<>>, <<>>), Unit >>

BinOpInit ==
    /\ global = EmptyMap
    /\ stack = << FrameNew >>
    /\ ctrl = <<>>
    /\ mode = "binop"
    /\ \E op \in BinaryOps : \E i \in 1..Len(OpValues) : \E j \in 1..Len(OpValues) :
          focus = [op |-> op, left |-> OpValues[i], right |-> OpValues[j]]
    /\ prog = <<>>
    /\ result = None
    /\ runs = 0
    /\ flows = <<>>

(* self.eval_bin_op(op, lhs, rhs) of Expr::Binary                                     *)
ApplyBinOp ==
    /\ mode = "binop"
    /\ mode' = "applied"
    /\ result' = EvalBinOp(focus.op, focus.left, focus.right)
    /\ UNCHANGED <<global, stack, ctrl, focus, prog, runs, flows>>

BinOpSpec == BinOpInit /\ [][ApplyBinOp]_vars

(* The table of the documentation: the (op, lhs kind, rhs kind) triples on *)
(* which an operator is defined.                                           *)
Arithmetic == {"Add", "Sub", "Mul", "Div", "Mod"}
Comparison == {"Eq", "Ne", "Lt", "Le", "Gt", "Ge"}
InTable(op, lk, rk) ==
    \/ op \in Arithmetic /\ lk = rk /\ lk \in {"Int", "Float"}
    \/ op = "Add" /\ lk = rk /\ lk \in {"Str", "Array"}
    \/ op = "Mul" /\ lk = "Str" /\ rk = "Int"
    \/ op \in Comparison /\ lk = rk /\ lk \in {"Int", "Float"}
    \/ op \in {"Eq", "Ne", "And", "Or"} /\ lk = "Bool" /\ rk = "Bool"
ByZero(op, l, r) ==
    /\ op \in {"Div", "Mod"}
    /\ l.t = r.t
    /\ \/ r = IntV(0)
       \/ r = FloatV(FZero)

(* C12: eval_bin_op succeeds exactly on the triples of the table, with Div *)
(* and Mod by zero an error, and fails with "Cannot apply" on every other  *)
(* triple.                                                                 *)
C12_DispatchTable ==
    mode = "applied" =>
        LET op == focus.op
            l  == focus.left
            r  == focus.right IN
        IF ~InTable(op, l.t, r.t) THEN result = Err("Cannot apply")
        ELSE IF ByZero(op, l, r)
             THEN result \in {Err("Division by zero"), Err("Modulo by zero")}
        ELSE result.ok

---------------------------------------------------------------------------
(* C13: in every Binary expression, And and Or included, once the left     *)
(* operand has a value the right operand is evaluated, whatever the        *)
(* operator and the value; the expression is left before that only when    *)
(* the left operand failed, and then the right operand is not evaluated.   *)
(* The right operand's assignments are therefore made when the left        *)
(* operand of And is false or of Or is true, and not made when the left    *)
(* operand fails.                                                          *)
C13_BothOperands ==
    /\ [][Got("BinaryL")
           => /\ mode' = "eval"
              /\ focus' = Top.rhs
              /\ ctrl' = << KBinaryR(Top.op, focus.val) >> \o Tail(ctrl)
              /\ stack' = stack
              /\ global' = global]_vars
    /\ [][(ctrl # <<>> /\ Top.k = "BinaryL" /\ ctrl' = Tail(ctrl))
           => /\ mode = "ret"
              /\ focus.kind = "Err"
              /\ mode' = "ret"
              /\ focus' = focus]_vars
    /\ [][(Idle' /\ prog' = P_AndBoth /\ result'.ok)
           => result'.val = ArrayV(<< BoolV(FALSE), IntV(1) >>)]_vars
    /\ [][(Idle' /\ prog' = P_OrBoth /\ result'.ok)
           => result'.val = ArrayV(<< BoolV(TRUE), IntV(1) >>)]_vars
    /\ [][(Idle' /\ prog' = P_LhsFails /\ result' = Err("Division by zero"))
           => Lookup(stack', global', "x") = Ok(IntV(0))]_vars

(* C13 witness: `false && { x = 1  true }` has been evaluated: the result  *)
(* is false and the block of the right operand has set x.                  *)
C13_Witness ==
    /\ Idle
    /\ prog = P_AndBoth
    /\ result = Ok(ArrayV(<< BoolV(FALSE), IntV(1) >>))
    /\ Lookup(stack, global, "x") = Ok(IntV(1))

---------------------------------------------------------------------------
(* C14: a Call whose name is in the built-in registry goes to the          *)
(* built-in, whatever the scope binds the name to: its arguments are       *)
(* evaluated and the built-in is applied to them, no frame is pushed and   *)
(* no user function body is entered.  A Call of any other name resolves    *)
(* the name by scope lookup: it fails at once unless the value found is a  *)
(* Function, and otherwise calls that Function.                            *)
C14_BuiltinFirst ==
    /\ [][(Evaluating("Call") /\ focus.name \in Builtins)
           => /\ stack' = stack
              /\ global' = global
              /\ IF focus.args = <<>>
                 THEN /\ mode' = "ret"
                      /\ focus' = OfResult(ApplyBuiltin(focus.name, <<>>))
                 ELSE /\ mode' = "eval"
                      /\ focus' = focus.args[1]
                      /\ ctrl'[1].k = "BuiltinArgs"
                      /\ ctrl'[1].name = focus.name]_vars
    /\ [][(Got("BuiltinArgs") /\ Top.rest = <<>>)
           => /\ stack' = stack
              /\ ctrl' = Tail(ctrl)
              /\ focus' = OfResult(ApplyBuiltin(Top.name, Append(Top.done, focus.val)))]_vars
    /\ [][(Evaluating("Call") /\ focus.name \notin Builtins)
           => LET func == Lookup(stack, global, focus.name) IN
              IF ~func.ok \/ func.val.t # "Function"
              THEN /\ mode' = "ret"
                   /\ focus'.kind = "Err"
                   /\ stack' = stack
                   /\ ctrl' = ctrl
              ELSE \/ /\ focus.args # <<>>
                      /\ mode' = "eval"
                      /\ ctrl'[1].k = "CallArgs"
                      /\ ctrl'[1].body = func.val.body
                   \/ /\ focus.args = <<>>
                      /\ func.val.params = <<>>
                      /\ \/ func.val.body = <<>> /\ focus' = ValR(Unit)
                         \/ /\ mode' = "exec"
                            /\ focus' = func.val.body[1]
                   \/ /\ focus.args = <<>>
                      /\ func.val.params # <<>>
                      /\ focus' = ErrR("Function expects arguments")]_vars
    /\ [][(Idle' /\ prog' = P_UserLen /\ result'.ok)
           => result'.val = ArrayV(<< IntV(2), IntV(3) >>)]_vars

(* C14 witness: with a user function len and a variable abs defined,       *)
(* len([1, 2]) and abs(0 - 3) have given the built-ins' 2 and 3.           *)
C14_Witness ==
    /\ Idle
    /\ prog = P_UserLen
    /\ result = Ok(ArrayV(<< IntV(2), IntV(3) >>))
    /\ global["len"].t = "Function"
    /\ Lookup(stack, global, "abs") = Ok(IntV(5))

---------------------------------------------------------------------------
(* C15: in the read of an ArrayAccess, a value to which a non-final index  *)
(* is applied (an index after which further indices follow) must be an     *)
(* Array, otherwise the evaluation fails: a Str in particular may be       *)
(* indexed by the final index only, and then yields the one-character Str  *)
(* at that position.                                                       *)
C15_IntermediateArrays ==
    /\ [][(Got("AccessIdx") /\ Top.rest # <<>> /\ Top.cur.t # "Array")
           => /\ mode' = "ret"
              /\ focus'.kind = "Err"]_vars
    /\ [][(Got("AccessIdx") /\ Top.rest = <<>> /\ Top.cur.t = "Str"
              /\ focus.val.t = "Int"
              /\ focus.val.v >= 0 /\ focus.val.v < Len(Top.cur.v))
           => focus' = ValR(StrV(<< Top.cur.v[focus.val.v + 1] >>))]_vars

---------------------------------------------------------------------------
(* Vocabulary of the array-access assignment.                              *)

(* The step that carries the assignment out: the last index expression of  *)
(* the target has just been evaluated.                                     *)
ArrayAssignStep == Got("ReassignIdx") /\ Top.rest = <<>>

(* The index chain of that step, as Ints.                                  *)
AssignChain ==
    [i \in 1..(Len(Top.done) + 1) |->
        IF i <= Len(Top.done) THEN Top.done[i].n ELSE focus.val.v]

(* The frame (TLA+ index) whose binding scope lookup finds for name; 0     *)
(* stands for the global table.                                            *)
TargetFrame(s, name) ==
    IF Binders(s, name) # {} THEN FirstBinder(s, name) ELSE 0
BindingAt(s, g, b, name) == IF b > 0 THEN s[b].local[name] ELSE g[name]

(* new is old with exactly the slot at the end of the chain replaced by v  *)
(* (by the character of v when the slot is a string position): the same    *)
(* kinds and lengths along the chain, every other element as it was.       *)
RECURSIVE OnlySlotChanged(_, _, _, _)
OnlySlotChanged(old, new, chain, v) ==
    LET i == chain[1] + 1 IN
    /\ old.t = new.t
    /\ old.t \in {"Array", "Str"}
    /\ Len(new.v) = Len(old.v)
    /\ i \in 1..Len(old.v)
    /\ \A j \in 1..Len(old.v) : j # i => new.v[j] = old.v[j]
    /\ IF Len(chain) = 1
       THEN IF old.t = "Array" THEN new.v[i] = v
            ELSE v.t = "Str" /\ Len(v.v) = 1 /\ new.v[i] = v.v[1]
       ELSE old.t = "Array" /\ OnlySlotChanged(old.v[i], new.v[i], Tail(chain), v)

(* C16: a successful array-access assignment a[i1]...[ik] = v replaces     *)
(* exactly the addressed slot in the binding that scope lookup finds for   *)
(* a: every other element at every depth and every length in a, every      *)
(* other binding of every frame and of the global table, and the frames    *)
(* themselves are unchanged; with a = [[1,2],[3,4]], a[1][0] = 99 gives    *)
(* [[1,2],[99,4]].                                                         *)
C16_ExactSlot ==
    /\ [][(ArrayAssignStep /\ focus'.kind = "Continue")
           => LET name == Top.name
                  b    == TargetFrame(stack, name)
                  old  == BindingAt(stack, global, b, name)
                  new  == BindingAt(stack', global', b, name) IN
              /\ Len(stack') = Len(stack)
              /\ \A j \in 1..Len(stack) :
                    /\ stack'[j].parent = stack[j].parent
                    /\ DOMAIN stack'[j].local = DOMAIN stack[j].local
                    /\ \A n \in DOMAIN stack[j].local :
                          (j # b \/ n # name)
                              => stack'[j].local[n] = stack[j].local[n]
              /\ DOMAIN global' = DOMAIN global
              /\ \A n \in DOMAIN global :
                    (b # 0 \/ n # name) => global'[n] = global[n]
              /\ OnlySlotChanged(old, new, AssignChain, Top.val)
              /\ Lookup(stack', global', name) = Ok(new)]_vars
    /\ [][(Idle' /\ prog' = P_Nested /\ result'.ok)
           => result'.val = ArrayV(<< ArrayV(<< IntV(1), IntV(2) >>),
                                     ArrayV(<< IntV(99), IntV(4) >>) >>)]_vars

(* C16 witness: m[1][0] = 99 has been carried out on [[1,2],[3,4]].        *)
C16_Witness ==
    /\ Idle
    /\ prog = P_Nested
    /\ result = Ok(ArrayV(<< ArrayV(<< IntV(1), IntV(2) >>),
                             ArrayV(<< IntV(99), IntV(4) >>) >>))

---------------------------------------------------------------------------
(* An array-access assignment is pending: its value or one of its indices  *)
(* has just been evaluated (or has failed).                                *)
ArrayAssignPending ==
    /\ mode = "ret"
    /\ ctrl # <<>>
    /\ \/ Top.k = "ReassignIdx"
       \/ Top.k = "Reassignment" /\ Top.target.k = "ArrayAccess"

(* The failing assignments of the documentation, each with the variable it *)
(* needs (none for the unresolvable name) and the error it must end with.  *)
BadAssignments ==
    << [p |-> P_BadNonInt, need |-> <<"m">>,    err |-> "Array index must be an integer"],
       [p |-> P_BadDepth,  need |-> <<"m">>,    err |-> "Array index out of bounds"],
       [p |-> P_BadFinal,  need |-> <<"m">>,    err |-> "Array index out of bounds"],
       [p |-> P_BadNeg,    need |-> <<"m">>,    err |-> "Array index out of bounds"],
       [p |-> P_BadWalk,   need |-> <<"box">>,  err |-> "Cannot index into"],
       [p |-> P_BadInt,    need |-> <<"m">>,    err |-> "Cannot index into"],
       [p |-> P_BadUnres,  need |-> <<>>,       err |-> "The variable does not exist"],
       [p |-> P_BadNotStr, need |-> <<"word">>, err |-> "Can only assign string to string index"],
       [p |-> P_BadTwo,    need |-> <<"word">>,
        err |-> "Can only assign single character to string index"],
       [p |-> P_BadStrOob, need |-> <<"word">>, err |-> "String index out of bounds"] >>

(* C17: an array-access assignment that fails changes nothing: the step at *)
(* which it fails leaves every frame and the global table as they were.    *)
(* A non-Int index, an index out of bounds at any depth, a negative index, *)
(* a non-array intermediate value, an unresolvable name and a string       *)
(* position given anything but a one-character Str all fail, each with its *)
(* error.  A successful string-position assignment keeps the character     *)
(* count and changes the addressed character only ("hi" becomes "ho").     *)
C17_FailedAssignKeeps ==
    /\ [][(ArrayAssignPending /\ mode' = "ret" /\ focus'.kind = "Err")
           => /\ stack' = stack
              /\ global' = global]_vars
    /\ [][\A c \in 1..Len(BadAssignments) :
            (/\ Idle'
             /\ prog' = BadAssignments[c].p
             /\ \A j \in 1..Len(BadAssignments[c].need) :
                   Lookup(stack', global', BadAssignments[c].need[j]).ok)
            => result' = Err(BadAssignments[c].err)]_vars
    /\ [][(Idle' /\ prog' = P_StrSet /\ result'.ok)
           => result'.val = ArrayV(<< StrV(<<"h", "o">>), IntV(2) >>)]_vars

(* C17 witness: m[0][2] = 1 has failed on m = [[1,2],[99,4]], out of       *)
(* bounds at the second depth, and m is what it was.                       *)
C17_Witness ==
    /\ Idle
    /\ prog = P_BadFinal
    /\ result = Err("Array index out of bounds")
    /\ Lookup(stack, global, "m").ok
    /\ Lookup(stack, global, "m").val =
          ArrayV(<< ArrayV(<< IntV(1), IntV(2) >>), ArrayV(<< IntV(99), IntV(4) >>) >>)

---------------------------------------------------------------------------
(* parse (src/src/parser.rs) on a source that is one integer literal, as   *)
(* in tests::test_parse_literal: the grammar matches the digits as an Int  *)
(* under Literal, Expr and Stmt, and parse_literal converts them.          *)

(* An i64 too large for the checking tool's integers is named by its       *)
(* decimal digits without leading zeros.                                   *)
I64MaxDigits ==
    << "9", "2", "2", "3", "3", "7", "2", "0", "3", "6",
       "8", "5", "4", "7", "7", "5", "8", "0", "7" >>

DigitChars == << "0", "1", "2", "3", "4", "5", "6", "7", "8", "9" >>
DigitVal(c) == (CHOOSE i \in 1..10 : DigitChars[i] = c) - 1

(* The Int rule of the grammar: one or more decimal digits.                *)
IsIntLiteral(text) ==
    /\ Len(text) >= 1
    /\ \A i \in 1..Len(text) : \E d \in 1..10 : DigitChars[d] = text[i]

RECURSIVE StripZeros(_)
StripZeros(ds) ==
    IF Len(ds) > 1 /\ ds[1] = "0" THEN StripZeros(Tail(ds)) ELSE ds

(* a <= b for two digit strings of the same length.                        *)
RECURSIVE DigitsLe(_, _)
DigitsLe(a, b) ==
    IF a = <<>> THEN TRUE
    ELSE IF DigitVal(a[1]) # DigitVal(b[1]) THEN DigitVal(a[1]) < DigitVal(b[1])
    ELSE DigitsLe(Tail(a), Tail(b))

(* str::parse::<i64>() on a digit string: the value, or the error of a     *)
(* value above i64::MAX.                                                   *)
ParseI64(text) ==
    LET ds == StripZeros(text) IN
    IF Len(ds) < Len(I64MaxDigits)
       \/ (Len(ds) = Len(I64MaxDigits) /\ DigitsLe(ds, I64MaxDigits))
    THEN Ok(ds)
    ELSE Err("number too large to fit in target type")

(* parse_literal, Rule::Int: Ok(Expr::Int(inner.as_str().parse().unwrap()))*)
ParseLiteral(text) ==
    LET n == ParseI64(text) IN
    IF n.ok THEN Ok([k |-> "Int", digits |-> n.val]) ELSE Panic(n.err)

(* parse: the grammar match, then one Stmt::Expr per statement pair.       *)
Parse(text) ==
    IF ~IsIntLiteral(text) THEN Err("Parsing error")
    ELSE LET e == ParseLiteral(text) IN
         IF e.ok THEN Ok(<< ExprS(e.val) >>) ELSE e

(* The sources drawn: up to MaxZeros leading zeros, then a prefix of the   *)
(* digits of i64::MAX, as it is or with its last digit raised by one; and  *)
(* twenty nines.                                                           *)
MaxZeros == 2
Zeros(z) == [i \in 1..z |-> "0"]
Raised(ds) ==
    LET d == DigitVal(ds[Len(ds)]) IN
    IF d = 9 THEN ds ELSE [ds EXCEPT ![Len(ds)] = DigitChars[d + 2]]
Sources ==
    {Zeros(z) \o SubSeq(I64MaxDigits, 1, n) : z \in 0..MaxZeros, n \in 1..19}
    \cup {Zeros(z) \o Raised(SubSeq(I64MaxDigits, 1, n)) : z \in 0..MaxZeros, n \in 1..19}
    \cup {[i \in 1..20 |-> "9"]}

ParseInit ==
    /\ global = EmptyMap
    /\ stack = << FrameNew >>
    /\ ctrl = <<>>
    /\ mode = "source"
    /\ focus \in Sources
    /\ prog = <<>>
    /\ result = None
    /\ runs = 0
    /\ flows = <<>>

(* match parse(inp) of the prompt.                                         *)
ParseSource ==
    /\ mode = "source"
    /\ mode' = "parsed"
    /\ result' = Parse(focus)
    /\ UNCHANGED <<global, stack, ctrl, focus, prog, runs, flows>>

ParseSpec == ParseInit /\ [][ParseSource]_vars

(* C18: parse returns, for every source, a program or a diagnostic string  *)
(* and never aborts; an integer literal of decimal digits whose value does *)
(* not fit an i64 yields a diagnostic string.                              *)
C18_ParseTotal ==
    mode = "parsed" =>
        /\ ~IsPanic(result)
        /\ (~ParseI64(focus).ok) => ~result.ok

---------------------------------------------------------------------------
(* C19: every frame pushed for a user function call or a For loop is       *)
(* popped when the call or loop ends, by completion, by Return or by a     *)
(* runtime error inside it: whenever run has returned, Ok or Err, the      *)
(* stack is exactly the base frame.                                        *)
C19_FrameBalance ==
    Idle => Len(stack) = 1 /\ stack[1].parent = <<>>

---------------------------------------------------------------------------
(* C20: the stack is never empty, the base frame at index 0 has no parent, *)
(* and the parent of every other frame, when present, is an index smaller  *)
(* than the frame's own that names a frame on the stack; so the walks of   *)
(* lookup and lookup_mut visit strictly decreasing indices.                *)
ParentBelow(s, j) ==
    s[j].parent # <<>> =>
        /\ s[j].parent[1] \in 0..(Len(s) - 1)
        /\ s[j].parent[1] < j - 1

C20_ParentChain ==
    /\ stack # <<>>
    /\ stack[1].parent = <<>>
    /\ \A j \in 1..Len(stack) : ParentBelow(stack, j)

(* A name is about to be resolved from a loop frame that does not hold it, *)
(* through the parent link, below a frame an earlier error left behind.    *)
C20_Witness ==
    /\ mode = "eval"
    /\ focus.k = "Var"
    /\ Len(stack) >= 3
    /\ stack[Len(stack)].parent = << Len(stack) - 2 >>
    /\ focus.name \notin DOMAIN stack[Len(stack)].local
    /\ LookupChain(stack, Len(stack) - 1, focus.name) # <<>>

---------------------------------------------------------------------------
(* The names a state can ask for: every bound name and one that is not.    *)
AskedNames == BoundNames(stack, global) \cup {"zz"}

(* C21: lookup succeeds exactly when lookup_mut yields a handle; both      *)
(* select the first frame of the chain that binds the name (the chain     *)
(* descends, so it is the binder of greatest index), else the global       *)
(* table; lookup returns the value the handle refers to; and when   *)
(* neither finds the name lookup fails with Undefined Variable: <name>.    *)
C21_LookupAgree ==
    \A name \in AskedNames :
        LET r == Lookup(stack, global, name)
            h == LookupMut(stack, global, name)
        IN  /\ r.ok <=> h # <<>>
            /\ Binders(stack, name) # {} =>
                  /\ h = << [where |-> "frame", idx |-> FirstBinder(stack, name) - 1] >>
                  /\ r = Ok(stack[FirstBinder(stack, name)].local[name])
            /\ (Binders(stack, name) = {} /\ name \in DOMAIN global) =>
                  /\ h = << [where |-> "global"] >>
                  /\ r = Ok(global[name])
            /\ h # <<>> => r = Ok(Deref(stack, global, h[1], name))
            /\ (Binders(stack, name) = {} /\ name \notin DOMAIN global) =>
                  /\ h = <<>>
                  /\ r = Err("Undefined Variable: " \o name)

(* Inside a loop frame above a leftover frame: one name found in the loop  *)
(* frame, one through the parent link, one in the global table, one        *)
(* nowhere.                                                                *)
C21_Witness ==
    /\ Len(stack) >= 2
    /\ stack[Len(stack)].parent # <<>>
    /\ \E a \in AskedNames : Binders(stack, a) # {} /\ FirstBinder(stack, a) = Len(stack)
    /\ \E b \in AskedNames : Binders(stack, b) # {} /\ FirstBinder(stack, b) < Len(stack)
    /\ \E c \in AskedNames : Binders(stack, c) = {} /\ c \in DOMAIN global
    /\ Lookup(stack, global, "zz") = Err("Undefined Variable: zz")

---------------------------------------------------------------------------
(* Steps of a For loop, recognised from the state before them.             *)
ForBounds    == Got("ForEnd") /\ Top.st.t = "Int" /\ focus.val.t = "Int"
ForBegins    == ForBounds /\ mode' = "exec"
ForSkips     == ForBounds /\ mode' = "ret"
ForIterates  == Got("ForBody") /\ mode' = "exec" /\ Top.rest = <<>>
ForCompletes == ForEnds /\ focus.kind # "Return"

Max0(n) == IF n > 0 THEN n ELSE 0

---------------------------------------------------------------------------
(* A let directly in the body of a loop, in its second or a later          *)
(* iteration: the statement ran in the iteration before.                   *)
LetAgainInLoop ==
    /\ LetStep
    /\ Len(ctrl) >= 2
    /\ ctrl[2].k \in {"ForBody", "WhileBody"}
    /\ ctrl[2].g_iter >= 2

WhileIterates == Got("WhileCond") /\ mode' = "exec"
WhileLoopsBack == Got("WhileBody") /\ Top.rest = <<>> /\ focus.kind # "Return"

(* C23: a loop keeps one scope for all its iterations: While the frame on  *)
(* top at its start, For the one frame it pushed; so a let of the body,    *)
(* reached again in a later iteration, fails with the variable already     *)
(* exists error.                                                           *)
C23_LoopScope ==
    [][ /\ LetAgainInLoop =>
            /\ focus' = ErrR("The variable already exists")
            /\ stack' = stack /\ global' = global
        /\ ForIterates =>
            /\ Len(stack') = Len(stack)
            /\ \A j \in 1..Len(stack) :
                 \A n \in DOMAIN stack[j].local : n \in DOMAIN stack'[j].local
        /\ WhileIterates => stack' = stack /\ Len(stack) = Top.g_depth
        /\ WhileLoopsBack => stack' = stack /\ Len(stack) = Top.g_depth
      ]_vars

(* The let of a While body has just failed in the second iteration, above  *)
(* the loop frame that a For left when its let failed in its second.       *)
C23_Witness ==
    /\ mode = "ret"
    /\ focus = ErrR("The variable already exists")
    /\ ctrl # <<>> /\ Top.k = "WhileBody" /\ Top.g_iter = 2
    /\ stack[Len(stack)].parent # <<>>
    /\ DOMAIN stack[Len(stack)].local = {"i", "w", "b", "v"}
    /\ stack[Len(stack)].local["i"] = IntV(1)
    /\ stack[Len(stack)].local["w"] = IntV(0)
    /\ stack[Len(stack)].local["v"] = IntV(0)
    /\ stack[Len(stack)].local["b"] = IntV(1)

---------------------------------------------------------------------------
(* C24: the global table is populated by Function statements only: every   *)
(* key is bound to a Function value, and no let and no assignment adds,    *)
(* replaces or mutates an entry.                                           *)
C24_GlobalFunctions ==
    \A name \in DOMAIN global : global[name].t = "Function"

---------------------------------------------------------------------------
(* The arithmetic of i64 at its full width.  A mathematical integer is a   *)
(* sign and a magnitude; a magnitude is the sequence of its decimal        *)
(* digits, least significant first, without leading zeros (<<>> is 0).     *)

Norm(m) ==
    LET nz == {j \in 1..Len(m) : m[j] # 0} IN
    IF nz = {} THEN <<>>
    ELSE SubSeq(m, 1, CHOOSE j \in nz : \A k \in nz : k <= j)

Rest(m) == IF m = <<>> THEN <<>> ELSE Tail(m)
Low(m) == IF m = <<>> THEN 0 ELSE m[1]

RECURSIVE AddCarry(_, _, _)
AddCarry(a, b, c) ==
    IF a = <<>> /\ b = <<>> THEN (IF c = 0 THEN <<>> ELSE << c >>)
    ELSE LET x == Low(a) + Low(b) + c IN
         << x % 10 >> \o AddCarry(Rest(a), Rest(b), x \div 10)

MagAdd(a, b) == AddCarry(a, b, 0)

(* a <= b: by length, then by the most significant digit that differs.     *)
MagLe(a, b) ==
    IF Len(a) # Len(b) THEN Len(a) < Len(b)
    ELSE LET D == {j \in 1..Len(a) : a[j] # b[j]} IN
         \/ D = {}
         \/ LET j == CHOOSE j \in D : \A k \in D : k <= j IN a[j] < b[j]

(* a - b for b <= a.                                                       *)
RECURSIVE SubBorrow(_, _, _)
SubBorrow(a, b, c) ==
    IF a = <<>> THEN <<>>
    ELSE LET x == Low(a) - Low(b) - c IN
         IF x < 0 THEN << x + 10 >> \o SubBorrow(Rest(a), Rest(b), 1)
         ELSE << x >> \o SubBorrow(Rest(a), Rest(b), 0)

MagSub(a, b) == Norm(SubBorrow(a, b, 0))

RECURSIVE MulCarry(_, _, _)
MulCarry(a, d, c) ==
    IF a = <<>> THEN (IF c = 0 THEN <<>> ELSE << c >>)
    ELSE LET x == a[1] * d + c IN
         << x % 10 >> \o MulCarry(Tail(a), d, x \div 10)

(* d * m for a digit d.                                                    *)
MagTimes(m, d) == Norm(MulCarry(m, d, 0))

(* 10 * m.                                                                 *)
Shift(m) == IF m = <<>> THEN <<>> ELSE << 0 >> \o m

(* The products are computed from the most significant digit of b down    *)
(* (each partial result is a value before it is used).                     *)
RECURSIVE MagMul(_, _)
MagMul(a, b) ==
    IF b = <<>> THEN <<>>
    ELSE CHOOSE p \in {MagAdd(MagTimes(a, b[1]), Shift(up)) :
                           up \in {MagMul(a, Tail(b))}} : TRUE

(* How often b fits into r (at most nine times in the long division), and  *)
(* what is left.                                                           *)
Fit(r, b) ==
    LET d == CHOOSE d \in 0..9 :
                 /\ MagLe(MagTimes(b, d), r)
                 /\ ~MagLe(MagTimes(b, d + 1), r)
    IN  [d |-> d, r |-> MagSub(r, MagTimes(b, d))]

(* One step of the long division: up is the quotient and remainder of     *)
(* the digits above the digit low.                                         *)
DivDigit(up, low, b) ==
    LET f == Fit(Norm(<< low >> \o up.r), b) IN
    [q |-> Norm(<< f.d >> \o up.q), r |-> f.r]

(* Quotient and remainder of a by b, b not 0: long division, from the      *)
(* most significant digit of a down.                                       *)
RECURSIVE MagDivMod(_, _)
MagDivMod(a, b) ==
    IF a = <<>> THEN [q |-> <<>>, r |-> <<>>]
    ELSE CHOOSE qr \in {DivDigit(up, a[1], b) : up \in {MagDivMod(Tail(a), b)}} : TRUE

W(neg, mag) == [neg |-> neg /\ mag # <<>>, mag |-> mag]

WNeg(x) == W(~x.neg, x.mag)
WAdd(x, y) ==
    IF x.neg = y.neg THEN W(x.neg, MagAdd(x.mag, y.mag))
    ELSE IF MagLe(y.mag, x.mag) THEN W(x.neg, MagSub(x.mag, y.mag))
    ELSE W(y.neg, MagSub(y.mag, x.mag))
WSub(x, y) == WAdd(x, WNeg(y))
WMul(x, y) == W(x.neg # y.neg, MagMul(x.mag, y.mag))
(* Division truncates toward zero; the remainder has the dividend's sign.  *)
WDiv(x, y) == W(x.neg # y.neg, MagDivMod(x.mag, y.mag).q)
WRem(x, y) == W(x.neg, MagDivMod(x.mag, y.mag).r)

(* The magnitude of a digit string (most significant digit first).         *)
MagOf(ds) == Norm([j \in 1..Len(ds) |-> DigitVal(ds[Len(ds) + 1 - j])])

WZero == W(FALSE, <<>>)
WOne == W(FALSE, << 1 >>)
I64Max == W(FALSE, MagOf(I64MaxDigits))
I64Min == WSub(WNeg(I64Max), WOne)
Pow64 == MagAdd(MagAdd(I64Max.mag, I64Max.mag), << 2 >>)

FitsI64(x) ==
    IF x.neg THEN MagLe(x.mag, I64Min.mag) ELSE MagLe(x.mag, I64Max.mag)

(* The two's complement wrap of x to 64 bits.                              *)
WrapI64(x) ==
    LET r == MagDivMod(x.mag, Pow64).r
        u == IF x.neg /\ r # <<>> THEN MagSub(Pow64, r) ELSE r
    IN  IF MagLe(u, I64Max.mag) THEN W(FALSE, u) ELSE W(TRUE, MagSub(Pow64, u))

(* Val::Int at full width.                                                 *)
IntW(x) == [t |-> "Int", w |-> x]

(* a + b, a - b, a * b and -a on i64: the exact result when it fits; when  *)
(* it does not, a panic in a build with overflow checks (the default of    *)
(* the dev and test profiles) and the wrapped result in one without.       *)
Overflowing(exact, checked, what) ==
    IF FitsI64(exact) THEN Ok(IntW(exact))
    ELSE IF checked THEN Panic(what)
    ELSE Ok(IntW(WrapI64(exact)))

(* a / b and a % b on i64, b not 0: i64::MIN by -1 panics in every build.  *)
Dividing(a, b, exact, what) ==
    IF FitsI64(WDiv(a, b)) THEN Ok(IntW(exact)) ELSE Panic(what)

(* The Int arms of eval_bin_op and the Int arm of Expr::Unary.             *)
EvalIntOp(op, a, b, checked) ==
    CASE op = "Add" -> Overflowing(WAdd(a, b), checked, "attempt to add with overflow")
      [] op = "Sub" -> Overflowing(WSub(a, b), checked, "attempt to subtract with overflow")
      [] op = "Mul" -> Overflowing(WMul(a, b), checked, "attempt to multiply with overflow")
      [] op = "Div" -> IF b = WZero THEN Err("Division by zero")
                       ELSE Dividing(a, b, WDiv(a, b), "attempt to divide with overflow")
      [] op = "Mod" -> IF b = WZero THEN Err("Modulo by zero")
                       ELSE Dividing(a, b, WRem(a, b),
                                     "attempt to calculate the remainder with overflow")
      [] op = "Neg" -> Overflowing(WNeg(a), checked, "attempt to negate with overflow")

IntOps == {"Add", "Sub", "Mul", "Div", "Mod", "Neg"}

(* Operands at and near the ends of the range, around zero, and two whose  *)
(* product leaves the range.                                               *)
I64Values ==
    LET two == WAdd(WOne, WOne)
        pow32 == W(FALSE, MagOf(<< "4", "2", "9", "4", "9", "6", "7", "2", "9", "6" >>))
    IN  { I64Min, WAdd(I64Min, WOne), WNeg(pow32), WNeg(two), WNeg(WOne), WZero,
          WOne, two, pow32, WSub(I64Max, WOne), I64Max }

IntOpInit ==
    /\ global = EmptyMap
    /\ stack = << FrameNew >>
    /\ ctrl = <<>>
    /\ mode = "intop"
    /\ focus \in { f \in [op : IntOps, a : I64Values, b : I64Values, checked : BOOLEAN] :
                      f.op = "Neg" => f.b = WZero }
    /\ prog = <<>>
    /\ result = None
    /\ runs = 0
    /\ flows = <<>>

ApplyIntOp ==
    /\ mode = "intop"
    /\ mode' = "applied"
    /\ result' = EvalIntOp(focus.op, focus.a, focus.b, focus.checked)
    /\ UNCHANGED <<global, stack, ctrl, focus, prog, runs, flows>>

IntOpSpec == IntOpInit /\ [][ApplyIntOp]_vars

(* C25: on every pair of Int operands Add, Sub, Mul, Div and Mod, and Neg  *)
(* on every Int, yield an Int or, for Div and Mod by 0 only, an error      *)
(* string; no operands make the evaluator abort.                           *)
C25_IntTotal ==
    mode = "applied" =>
        /\ ~IsPanic(result)
        /\ result.ok => result.val.t = "Int" /\ FitsI64(result.val.w)
        /\ ~result.ok <=> (focus.op \in {"Div", "Mod"} /\ focus.b = WZero)

===========================================================================
